---- MODULE Spec2Model ----
(***************************************************************************)
(* Model of the solver orchestrator of sudoku-core (solver/mod.rs).        *)
(*                                                                         *)
(* The orchestrator is modelled from its source.  Its collaborators (the   *)
(* Grid, the candidate fabric, the engines, the backtracker, the Technique *)
(* enumeration) live in files that are not part of src/; they are modelled *)
(* from the specification document, on the grid with boxes of BoxSize x    *)
(* BoxSize cells (the program's grid has boxes of 3 x 3 cells).            *)
(***************************************************************************)
EXTENDS Integers, Sequences, FiniteSets, TLC

----------------------------------------------------------------------------
(* Option values                                                           *)

None == [tag |-> "None"]

Some(x) == [tag |-> "Some", v |-> x]

IsSome(o) == o.tag = "Some"

----------------------------------------------------------------------------
(* Geometry of the grid: cells, positions, houses, peers                   *)

BoxSize == 2

N == BoxSize * BoxSize

Digits == 1..N

Cells == 0..(N * N - 1)

RowOf(c) == c \div N

ColOf(c) == c % N

BoxOf(c) == (RowOf(c) \div BoxSize) * BoxSize + (ColOf(c) \div BoxSize)

\* idx_to_pos: linear cell index -> (row, col)
idx_to_pos(c) == [row |-> RowOf(c), col |-> ColOf(c)]

pos_to_idx(p) == p.row * N + p.col

\* Houses in canonical order: rows 0..N-1, columns N..2N-1, boxes 2N..3N-1.
Houses == 0..(3 * N - 1)

HouseCells ==
  [h \in Houses |->
     IF h < N THEN {c \in Cells : RowOf(c) = h}
     ELSE IF h < 2 * N THEN {c \in Cells : ColOf(c) = h - N}
     ELSE {c \in Cells : BoxOf(c) = h - 2 * N}]

Peers ==
  [c \in Cells |->
     {p \in Cells : p # c /\ (RowOf(p) = RowOf(c) \/ ColOf(p) = ColOf(c)
                              \/ BoxOf(p) = BoxOf(c))}]

SetMin(S) == CHOOSE x \in S : \A y \in S : x <= y

SetMax(S) == CHOOSE x \in S : \A y \in S : y <= x

----------------------------------------------------------------------------
(* The Grid collaborator: a solved digit (0 = unsolved) and a candidate    *)
(* set per cell.                                                           *)

GridValues == [val : [Cells -> 0..N], cand : [Cells -> SUBSET Digits]]

\* Grid::recalculate_candidates: the candidates of every unsolved cell are
\* the digits that no solved peer holds; a solved cell has none.
recalculate_candidates(g) ==
  [g EXCEPT !.cand =
     [c \in Cells |->
        IF g.val[c] # 0 THEN {}
        ELSE Digits \ {g.val[p] : p \in Peers[c]}]]

\* Grid::set_cell_unchecked(pos, Some(v)) / (pos, None): no validity check.
set_cell_unchecked(g, c, v) ==
  [g EXCEPT !.val[c] = v, !.cand[c] = IF v # 0 THEN {} ELSE @]

\* Grid::cell_mut(pos).remove_candidate(v)
remove_candidate(g, c, v) == [g EXCEPT !.cand[c] = @ \ {v}]

\* Grid::deep_clone: a copy that shares nothing with the grid copied.
deep_clone(g) == g

\* Grid::empty_positions
empty_positions(g) == {c \in Cells : g.val[c] = 0}

\* Grid::is_complete: every cell holds a digit.
is_complete(g) == \A c \in Cells : g.val[c] # 0

\* Grid::get(pos)
get(g, c) == IF g.val[c] = 0 THEN None ELSE Some(g.val[c])

\* Grid::from_string: row-major digits, 0 = empty; an empty cell starts with
\* every digit as a candidate, nothing is pruned yet.
from_string(s) ==
  [val |-> [c \in Cells |-> s[c + 1]],
   cand |-> [c \in Cells |-> IF s[c + 1] = 0 THEN Digits ELSE {}]]

----------------------------------------------------------------------------
(* Techniques, findings and hints (solver/types.rs, solver/explain.rs)     *)

\* The Technique enumeration in ascending order.
TechniqueOrder ==
  << "NakedSingle", "HiddenSingle", "NakedPair", "HiddenPair", "NakedTriple",
     "HiddenTriple", "PointingPair", "BoxLineReduction", "XWing", "FinnedXWing",
     "Swordfish", "FinnedSwordfish", "Jellyfish", "FinnedJellyfish", "NakedQuad",
     "HiddenQuad", "EmptyRectangle", "AvoidableRectangle", "UniqueRectangle",
     "HiddenRectangle", "XYWing", "XYZWing", "WXYZWing", "WWing", "XChain",
     "ThreeDMedusa", "SueDeCoq", "AIC", "FrankenFish", "SiameseFish", "AlsXz",
     "ExtendedUniqueRectangle", "BivalueUniversalGrave", "AlsXyWing", "AlsChain",
     "MutantFish", "AlignedPairExclusion", "AlignedTripletExclusion",
     "DeathBlossom", "NishioForcingChain", "KrakenFish", "RegionForcingChain",
     "CellForcingChain", "DynamicForcingChain", "Backtracking" >>

Techniques == {TechniqueOrder[i] : i \in DOMAIN TechniqueOrder}

\* The position of a technique in the enumeration (the derived Ord).
TechRank(t) == CHOOSE i \in DOMAIN TechniqueOrder : TechniqueOrder[i] = t

TechLess(a, b) == TechRank(a) < TechRank(b)

\* InferenceResult::Placement { cell, value } tagged with a technique.
Placement(t, c, v) ==
  [technique |-> t, kind |-> "Placement", cell |-> c, values |-> {v}]

\* InferenceResult::Elimination { cell, values } tagged with a technique.
Elimination(t, c, vs) ==
  [technique |-> t, kind |-> "Elimination", cell |-> c, values |-> vs]

\* Finding::to_hint: the technique tag, the target as a position, the values.
to_hint(f) ==
  [technique |-> f.technique,
   hint_type |-> IF f.kind = "Placement" THEN "SetValue" ELSE "EliminateCandidates",
   pos |-> idx_to_pos(f.cell),
   values |-> f.values]

----------------------------------------------------------------------------
(* The candidate fabric (solver/fabric.rs)                                 *)

\* CandidateFabric::from_grid: the snapshot of the grid's digits and
\* candidates the engines read.
from_grid(g) == [val |-> g.val, cand |-> g.cand]

\* The cells of house h that hold digit d as a candidate.
DigitCells(fab, h, d) ==
  {c \in HouseCells[h] : fab.val[c] = 0 /\ d \in fab.cand[c]}

\* The digits of house h that no cell of the house holds yet.
OpenDigits(fab, h) == Digits \ {fab.val[c] : c \in HouseCells[h]}

\* The k-element subsets of S, and the key that orders the subsets of one
\* size lexicographically by their ascending elements.
KSubsets(S, k) == {T \in SUBSET S : Cardinality(T) = k}

RECURSIVE Pow(_, _)
Pow(b, e) == IF e = 0 THEN 1 ELSE b * Pow(b, e - 1)

RECURSIVE LexKey(_)
LexKey(T) ==
  IF T = {} THEN 0
  ELSE LET m == SetMin(T)
       IN (m + 1) * Pow(N * N + 1, Cardinality(T) - 1) + LexKey(T \ {m})

\* The first subset, in lexicographic order, of a non-empty set of subsets.
FirstSubset(TT) == CHOOSE T \in TT : \A U \in TT : LexKey(T) <= LexKey(U)

----------------------------------------------------------------------------
(* The basic engine (solver/basic.rs)                                      *)

\* basic::find_naked_single: the first cell with exactly one candidate.
find_naked_single(fab) ==
  LET hits == {c \in Cells : fab.val[c] = 0 /\ Cardinality(fab.cand[c]) = 1}
  IN IF hits = {} THEN None
     ELSE LET c == SetMin(hits)
          IN Some(Placement("NakedSingle", c, CHOOSE v \in fab.cand[c] : TRUE))

\* basic::find_hidden_single: the first (house, digit) with exactly one cell.
find_hidden_single(fab) ==
  LET hits == {hd \in Houses \X Digits :
                 /\ hd[2] \in OpenDigits(fab, hd[1])
                 /\ Cardinality(DigitCells(fab, hd[1], hd[2])) = 1}
  IN IF hits = {} THEN None
     ELSE LET h == SetMin({hd[1] : hd \in hits})
              d == SetMin({hd[2] : hd \in {x \in hits : x[1] = h}})
              c == CHOOSE x \in DigitCells(fab, h, d) : TRUE
          IN Some(Placement("HiddenSingle", c, d))

NakedName(k) == IF k = 2 THEN "NakedPair" ELSE IF k = 3 THEN "NakedTriple" ELSE "NakedQuad"

HiddenName(k) == IF k = 2 THEN "HiddenPair" ELSE IF k = 3 THEN "HiddenTriple" ELSE "HiddenQuad"

\* The cells of a house outside T from which a naked subset T removes digits.
NakedTargets(fab, h, T) ==
  LET ds == UNION {fab.cand[c] : c \in T}
  IN {c \in HouseCells[h] \ T : fab.val[c] = 0 /\ fab.cand[c] \cap ds # {}}

\* basic::find_naked_subset(fab, k): k unsolved cells of a house whose
\* candidates are k digits in all; the digits leave the other cells.
find_naked_subset(fab, k) ==
  LET Open(h) == {c \in HouseCells[h] : fab.val[c] = 0 /\ fab.cand[c] # {}}
      Locked(h) == {T \in KSubsets(Open(h), k) :
                      /\ Cardinality(UNION {fab.cand[c] : c \in T}) = k
                      /\ NakedTargets(fab, h, T) # {}}
      hs == {h \in Houses : Locked(h) # {}}
  IN IF hs = {} THEN None
     ELSE LET h == SetMin(hs)
              T == FirstSubset(Locked(h))
              c == SetMin(NakedTargets(fab, h, T))
          IN Some(Elimination(NakedName(k), c,
                              fab.cand[c] \cap UNION {fab.cand[x] : x \in T}))

\* The cells of house h that hold some digit of D as a candidate.
HiddenCells(fab, h, D) == UNION {DigitCells(fab, h, d) : d \in D}

\* basic::find_hidden_subset(fab, k): k digits of a house confined to k
\* cells; every other digit leaves those cells.
find_hidden_subset(fab, k) ==
  LET Live(h) == {d \in OpenDigits(fab, h) : DigitCells(fab, h, d) # {}}
      Locked(h) == {D \in KSubsets(Live(h), k) :
                      /\ Cardinality(HiddenCells(fab, h, D)) = k
                      /\ \E c \in HiddenCells(fab, h, D) : fab.cand[c] \ D # {}}
      hs == {h \in Houses : Locked(h) # {}}
  IN IF hs = {} THEN None
     ELSE LET h == SetMin(hs)
              D == FirstSubset(Locked(h))
              c == SetMin({x \in HiddenCells(fab, h, D) : fab.cand[x] \ D # {}})
          IN Some(Elimination(HiddenName(k), c, fab.cand[c] \ D))

----------------------------------------------------------------------------
(* The fish engine (solver/fish_engine.rs)                                 *)

Rows == 0..(N - 1)

Cols == N..(2 * N - 1)

Boxes == (2 * N)..(3 * N - 1)

\* The lines (rows, columns) or boxes that hold all the cells of S.
LinesHolding(S) == {l \in Rows \cup Cols : S \subseteq HouseCells[l]}

BoxesHolding(S) == {b \in Boxes : S \subseteq HouseCells[b]}

\* The first finding among the (digit, house) pairs of hits; Targets(d, h) is
\* the set of cells that lose digit d.
FirstDigitHouse(hits, Targets(_, _), t) ==
  IF hits = {} THEN None
  ELSE LET d == SetMin({x[1] : x \in hits})
           h == SetMin({x[2] : x \in {y \in hits : y[1] = d}})
       IN Some(Elimination(t, SetMin(Targets(d, h)), {d}))

\* fish_engine::find_pointing_pair: the candidates of a digit in a box lie
\* on one line; the digit leaves the rest of the line.
find_pointing_pair(fab) ==
  LET In(d, b) == DigitCells(fab, b, d)
      Targets(d, b) ==
        UNION {DigitCells(fab, l, d) \ In(d, b) : l \in LinesHolding(In(d, b))}
      hits == {x \in Digits \X Boxes :
                 Cardinality(In(x[1], x[2])) >= 2 /\ Targets(x[1], x[2]) # {}}
  IN FirstDigitHouse(hits, Targets, "PointingPair")

\* fish_engine::find_box_line_reduction: the candidates of a digit on a line
\* lie in one box; the digit leaves the rest of the box.
find_box_line_reduction(fab) ==
  LET In(d, l) == DigitCells(fab, l, d)
      Targets(d, l) ==
        UNION {DigitCells(fab, b, d) \ In(d, l) : b \in BoxesHolding(In(d, l))}
      hits == {x \in Digits \X (Rows \cup Cols) :
                 Cardinality(In(x[1], x[2])) >= 2 /\ Targets(x[1], x[2]) # {}}
  IN FirstDigitHouse(hits, Targets, "BoxLineReduction")

FishName(n) == IF n = 2 THEN "XWing" ELSE IF n = 3 THEN "Swordfish" ELSE "Jellyfish"

\* The line of the other orientation through cell c.
CrossLine(base, c) == IF base \subseteq Rows THEN N + ColOf(c) ELSE RowOf(c)

\* The cells a fish of digit d with base lines B removes d from: the cells
\* of the cover lines outside the base lines.
FishTargets(fab, d, lines, B) ==
  LET baseCells == UNION {DigitCells(fab, l, d) : l \in B}
      covers == {CrossLine(lines, c) : c \in baseCells}
  IN IF Cardinality(covers) # Cardinality(B) THEN {}
     ELSE UNION {DigitCells(fab, l, d) : l \in covers} \ baseCells

\* fish_engine::find_basic_fish(fab, n): n base lines whose candidates of a
\* digit lie on exactly n cover lines (rows as bases first, then columns).
find_basic_fish(fab, n) ==
  LET Bases(d, lines) ==
        {B \in KSubsets({l \in lines : Cardinality(DigitCells(fab, l, d)) >= 2}, n) :
           FishTargets(fab, d, lines, B) # {}}
      hits == {x \in Digits \X {0, 1} :
                 Bases(x[1], IF x[2] = 0 THEN Rows ELSE Cols) # {}}
  IN IF hits = {} THEN None
     ELSE LET d == SetMin({x[1] : x \in hits})
              o == SetMin({x[2] : x \in {y \in hits : y[1] = d}})
              lines == IF o = 0 THEN Rows ELSE Cols
              B == FirstSubset(Bases(d, lines))
          IN Some(Elimination(FishName(n), SetMin(FishTargets(fab, d, lines, B)), {d}))

----------------------------------------------------------------------------
(* The backtracker (solver/backtrack.rs)                                   *)

\* The unsolved cell with the fewest candidates, the first one in index
\* order among equals (MRV).
MrvCell(g) ==
  LET E == empty_positions(g)
      m == SetMin({Cardinality(g.cand[c]) : c \in E})
  IN SetMin({c \in E : Cardinality(g.cand[c]) = m})

RECURSIVE solve_recursive(_)
RECURSIVE SolveTry(_, _, _)

\* backtrack::solve_recursive: depth-first search that fills the unsolved
\* cells; [ok, grid]: on success grid is the filled grid, on failure the
\* grid is left as it was received.
solve_recursive(g) ==
  IF empty_positions(g) = {} THEN [ok |-> TRUE, grid |-> g]
  ELSE LET c == MrvCell(g) IN SolveTry(g, c, g.cand[c])

\* The loop over the candidates of the chosen cell, in ascending order.
SolveTry(g, c, ds) ==
  IF ds = {} THEN [ok |-> FALSE, grid |-> g]
  ELSE LET d == SetMin(ds)
           r == solve_recursive(recalculate_candidates(set_cell_unchecked(g, c, d)))
       IN IF r.ok THEN r ELSE SolveTry(g, c, ds \ {d})

RECURSIVE count_solutions_recursive(_, _, _)
RECURSIVE CountTry(_, _, _, _, _)

\* backtrack::count_solutions_recursive: the count after the search below g,
\* which halts as soon as the count has reached the limit.
count_solutions_recursive(g, count, limit) ==
  IF count >= limit THEN count
  ELSE IF empty_positions(g) = {} THEN count + 1
  ELSE LET c == MrvCell(g) IN CountTry(g, c, g.cand[c], count, limit)

CountTry(g, c, ds, count, limit) ==
  IF ds = {} \/ count >= limit THEN count
  ELSE LET d == SetMin(ds)
           n == count_solutions_recursive(
                  recalculate_candidates(set_cell_unchecked(g, c, d)), count, limit)
       IN CountTry(g, c, ds \ {d}, n, limit)

\* backtrack::has_contradiction: an unsolved cell without candidates, or a
\* house and a digit the house does not hold and no cell of it can take.
has_contradiction(g) ==
  \/ \E c \in Cells : g.val[c] = 0 /\ g.cand[c] = {}
  \/ \E h \in Houses : \E d \in OpenDigits(from_grid(g), h) :
        DigitCells(from_grid(g), h, d) = {}

\* Place a digit as the finding of a single does: set the cell, recalculate.
PlaceDigit(g, c, v) == recalculate_candidates(set_cell_unchecked(g, c, v))

RECURSIVE SinglesFixpoint(_)
\* The loop of propagate_singles: naked singles, then hidden singles, until
\* a contradiction, a complete grid or no single is left.
SinglesFixpoint(g) ==
  IF has_contradiction(g) THEN <<g, TRUE>>
  ELSE LET fab == from_grid(g)
           ns == find_naked_single(fab)
           f == IF IsSome(ns) THEN ns ELSE find_hidden_single(fab)
       IN IF IsSome(f)
          THEN SinglesFixpoint(PlaceDigit(g, f.v.cell, CHOOSE v \in f.v.values : TRUE))
          ELSE <<g, FALSE>>

\* backtrack::propagate_singles(grid, pos, val): a fresh grid with the digit
\* placed and the singles propagated, and the contradiction flag.
propagate_singles(g, c, v) == SinglesFixpoint(PlaceDigit(deep_clone(g), c, v))

\* backtrack::find_backtracking_hint: solve a copy; the first unsolved cell
\* of the grid received with its digit in the solved copy.
find_backtracking_hint(g) ==
  LET r == solve_recursive(deep_clone(g))
      E == empty_positions(g)
  IN IF r.ok /\ E # {}
     THEN Some(Placement("Backtracking", SetMin(E), r.grid.val[SetMin(E)]))
     ELSE None

----------------------------------------------------------------------------
(* The orchestrator's dispatch (solver/mod.rs) and the forcing chains of   *)
(* the AIC engine (solver/aic_engine.rs), which call back into it through  *)
(* the propagation oracles.                                                *)

\* apply_finding: a placement sets the cell and recalculates the candidates;
\* an elimination removes the named candidates from the cell.
apply_finding(g, f) ==
  IF f.kind = "Placement"
  THEN recalculate_candidates(
         set_cell_unchecked(g, pos_to_idx(idx_to_pos(f.cell)),
                            CHOOSE v \in f.values : TRUE))
  ELSE [g EXCEPT !.cand[pos_to_idx(idx_to_pos(f.cell))] = @ \ f.values]

\* find_first_technique with the subsets tried before the singles.
HintPipelinePairsFirst ==
  << "find_naked_subset_2", "find_hidden_subset_2",
     "find_naked_single", "find_hidden_single",
     "find_naked_subset_3", "find_hidden_subset_3",
     "find_pointing_pair", "find_box_line_reduction",
     "find_basic_fish_2", "find_basic_fish_3", "find_basic_fish_4",
     "find_naked_subset_4", "find_hidden_subset_4",
     "find_nishio_fc", "find_region_fc", "find_cell_fc", "find_dynamic_fc" >>

\* The engine calls of find_first_technique, in the order of the code.
HintPipeline ==
  << "find_naked_single", "find_hidden_single",
     "find_naked_subset_2", "find_hidden_subset_2",
     "find_naked_subset_3", "find_hidden_subset_3",
     "find_pointing_pair", "find_box_line_reduction",
     "find_basic_fish_2", "find_finned_fish_2",
     "find_basic_fish_3", "find_finned_fish_3",
     "find_basic_fish_4", "find_finned_fish_4",
     "find_naked_subset_4", "find_hidden_subset_4",
     "find_empty_rectangle", "find_avoidable_rectangle",
     "find_unique_rectangle", "find_hidden_rectangle",
     "find_xy_wing", "find_xyz_wing", "find_wxyz_wing", "find_w_wing",
     "find_x_chain", "find_medusa", "find_sue_de_coq", "find_aic",
     "find_franken_fish", "find_siamese_fish", "find_als_xz",
     "find_extended_unique_rectangle", "find_bug",
     "find_als_xy_wing", "find_als_chain", "find_mutant_fish",
     "find_aligned_pair_exclusion", "find_aligned_triplet_exclusion",
     "find_death_blossom",
     "find_nishio_fc", "find_kraken_fish", "find_region_fc", "find_cell_fc",
     "find_dynamic_fc" >>

\* The dispatch table with the hidden single tried before the naked single.
RatePipelineHiddenFirst ==
  << "find_hidden_single", "find_naked_single",
     "find_naked_subset_2", "find_hidden_subset_2",
     "find_naked_subset_3", "find_hidden_subset_3",
     "find_pointing_pair", "find_box_line_reduction",
     "find_basic_fish_2", "find_finned_fish_2",
     "find_basic_fish_3", "find_finned_fish_3",
     "find_basic_fish_4", "find_finned_fish_4",
     "find_naked_subset_4", "find_hidden_subset_4",
     "find_empty_rectangle", "find_avoidable_rectangle",
     "find_unique_rectangle", "find_hidden_rectangle",
     "find_xy_wing", "find_xyz_wing", "find_wxyz_wing", "find_w_wing",
     "find_x_chain", "find_medusa", "find_sue_de_coq", "find_aic",
     "find_franken_fish", "find_siamese_fish", "find_als_xz",
     "find_extended_unique_rectangle", "find_bug",
     "find_als_xy_wing", "find_als_chain", "find_mutant_fish",
     "find_aligned_pair_exclusion", "find_aligned_triplet_exclusion",
     "find_death_blossom",
     "find_nishio_fc", "find_kraken_fish", "find_region_fc", "find_cell_fc",
     "find_dynamic_fc" >>

\* The engine calls of the dispatch table of solve_with_techniques.
RatePipeline ==
  << "find_naked_single", "find_hidden_single",
     "find_naked_subset_2", "find_hidden_subset_2",
     "find_naked_subset_3", "find_hidden_subset_3",
     "find_pointing_pair", "find_box_line_reduction",
     "find_basic_fish_2", "find_finned_fish_2",
     "find_basic_fish_3", "find_finned_fish_3",
     "find_basic_fish_4", "find_finned_fish_4",
     "find_naked_subset_4", "find_hidden_subset_4",
     "find_empty_rectangle", "find_avoidable_rectangle",
     "find_unique_rectangle", "find_hidden_rectangle",
     "find_xy_wing", "find_xyz_wing", "find_wxyz_wing", "find_w_wing",
     "find_x_chain", "find_medusa", "find_sue_de_coq", "find_aic",
     "find_franken_fish", "find_siamese_fish", "find_als_xz",
     "find_extended_unique_rectangle", "find_bug",
     "find_als_xy_wing", "find_als_chain", "find_mutant_fish",
     "find_aligned_pair_exclusion", "find_aligned_triplet_exclusion",
     "find_death_blossom",
     "find_nishio_fc", "find_kraken_fish", "find_region_fc", "find_cell_fc",
     "find_dynamic_fc" >>

\* The engine calls of propagate_full: no forcing chain.
PropPipeline ==
  << "find_naked_single", "find_hidden_single",
     "find_naked_subset_2", "find_hidden_subset_2",
     "find_naked_subset_3", "find_hidden_subset_3",
     "find_pointing_pair", "find_box_line_reduction",
     "find_basic_fish_2", "find_finned_fish_2",
     "find_basic_fish_3", "find_finned_fish_3",
     "find_basic_fish_4", "find_finned_fish_4",
     "find_naked_subset_4", "find_hidden_subset_4",
     "find_empty_rectangle", "find_avoidable_rectangle",
     "find_unique_rectangle", "find_hidden_rectangle",
     "find_xy_wing", "find_xyz_wing", "find_wxyz_wing", "find_w_wing",
     "find_x_chain", "find_medusa", "find_sue_de_coq", "find_aic",
     "find_franken_fish", "find_siamese_fish", "find_als_xz",
     "find_extended_unique_rectangle", "find_bug",
     "find_als_xy_wing", "find_als_chain", "find_mutant_fish",
     "find_aligned_pair_exclusion", "find_aligned_triplet_exclusion",
     "find_death_blossom" >>

\* The iteration cap of propagate_full.
PropagateCap == 200

RECURSIVE RunEngine(_, _, _)
RECURSIVE FirstFinding(_, _, _, _, _)
RECURSIVE PropagateLoop(_, _)
RECURSIVE NishioScan(_, _, _, _)
RECURSIVE CellScan(_, _, _, _, _)
RECURSIVE RegionScan(_, _, _, _, _)

\* Option::or_else: the finding, or else what the next call finds.
or_else(f, next) == IF IsSome(f) THEN f ELSE next

\* The first finding of the engine calls pipeline[lo..hi], tried in order,
\* each called with the fabric (the forcing chains with the grid).
FirstFinding(pipeline, lo, hi, fab, g) ==
  IF lo > hi THEN None
  ELSE IF lo = hi THEN RunEngine(pipeline[lo], fab, g)
  ELSE or_else(FirstFinding(pipeline, lo, (lo + hi) \div 2, fab, g),
               FirstFinding(pipeline, (lo + hi) \div 2 + 1, hi, fab, g))

\* The engine calls of a pipeline, first to last.
TryInOrder(pipeline, fab, g) == FirstFinding(pipeline, 1, Len(pipeline), fab, g)

RECURSIVE PropagateRun(_, _, _)

\* The match on the finding of an iteration of propagate_full that applies
\* a finding and leaves the loop at once.
PropagateMatchOnce(g, n, applied, finding) ==
  IF IsSome(finding)
  THEN [grid |-> apply_finding(g, finding.v),
        contradiction |-> has_contradiction(apply_finding(g, finding.v)),
        applied |-> Append(applied, finding.v)]
  ELSE [grid |-> g, contradiction |-> has_contradiction(g), applied |-> applied]

\* The match on the finding of an iteration of propagate_full: apply it and
\* go round again, or break.
PropagateMatch(g, n, applied, finding) ==
  IF IsSome(finding)
  THEN PropagateRun(apply_finding(g, finding.v), n - 1, Append(applied, finding.v))
  ELSE [grid |-> g, contradiction |-> has_contradiction(g), applied |-> applied]

\* The loop of propagate_full with n iterations left: the grid and the
\* flag it returns, and the findings it applied, in order.
PropagateRun(g, n, applied) ==
  IF n = 0
  THEN [grid |-> g, contradiction |-> has_contradiction(g), applied |-> applied]
  ELSE IF has_contradiction(g)
  THEN [grid |-> g, contradiction |-> TRUE, applied |-> applied]
  ELSE IF is_complete(g)
  THEN [grid |-> g, contradiction |-> FALSE, applied |-> applied]
  ELSE PropagateMatch(g, n, applied, TryInOrder(PropPipeline, from_grid(g), g))

\* The pair (Grid, bool) an oracle returns.
Outcome(r) == <<r.grid, r.contradiction>>

\* The loop of propagate_full with n iterations left.
PropagateLoop(g, n) == Outcome(PropagateRun(g, n, << >>))

\* The grid propagate_full starts its loop on: a copy of the grid received
\* with the hypothesis placed and the candidates recalculated.
Hypothesis(g, c, v) ==
  recalculate_candidates(set_cell_unchecked(deep_clone(g), c, v))

\* propagate_full(grid, pos, val)
propagate_full(g, c, v) == PropagateLoop(Hypothesis(g, c, v), PropagateCap)

\* The propagation oracle handed to a forcing-chain engine.
Propagate(oracle, g, c, v) ==
  IF oracle = "propagate_singles" THEN propagate_singles(g, c, v)
  ELSE propagate_full(g, c, v)

\* What every branch of a forcing chain forces: the first unsolved cell that
\* holds the same digit in all branch grids, else the first unsolved cell
\* with candidates that no branch grid keeps.
ForcedByAll(g, branches, t) ==
  LET Gone(x) == {d \in g.cand[x] : \A b \in branches :
                    IF b.val[x] # 0 THEN b.val[x] # d ELSE d \notin b.cand[x]}
      placed == {x \in Cells : g.val[x] = 0 /\
                   \E v \in Digits : \A b \in branches : b.val[x] = v}
      pruned == {x \in Cells : g.val[x] = 0 /\ Gone(x) # {}}
  IN IF branches = {} THEN None
     ELSE IF placed # {}
     THEN LET x == SetMin(placed)
          IN Some(Placement(t, x, (CHOOSE b \in branches : TRUE).val[x]))
     ELSE IF pruned # {}
     THEN Some(Elimination(t, SetMin(pruned), Gone(SetMin(pruned))))
     ELSE None

\* aic_engine::find_nishio_fc: the first candidate, by cell then digit
\* (k = cell * N + digit - 1, lo <= k <= hi), whose placement the oracle
\* drives into a contradiction, is eliminated.
NishioScan(g, oracle, lo, hi) ==
  IF lo = hi
  THEN LET c == lo \div N
           d == (lo % N) + 1
       IN IF g.val[c] = 0 /\ d \in g.cand[c] /\ Propagate(oracle, g, c, d)[2]
          THEN Some(Elimination("NishioForcingChain", c, {d}))
          ELSE None
  ELSE LET mid == (lo + hi) \div 2
           f == NishioScan(g, oracle, lo, mid)
       IN IF IsSome(f) THEN f ELSE NishioScan(g, oracle, mid + 1, hi)

find_nishio_fc(g, oracle) == NishioScan(g, oracle, 0, N * N * N - 1)

\* The branch grids of the hypotheses hyps (cell, digit), or {} when some
\* branch ends in a contradiction.
Branches(g, oracle, hyps) ==
  LET rs == {Propagate(oracle, g, x[1], x[2]) : x \in hyps}
  IN IF \E r \in rs : r[2] THEN {} ELSE {r[1] : r \in rs}

\* aic_engine::find_cell_fc: the first cell (lo <= cell <= hi), every
\* candidate of which forces the same placement or elimination.
CellScan(g, oracle, lo, hi, t) ==
  IF lo = hi
  THEN IF g.val[lo] = 0 /\ Cardinality(g.cand[lo]) >= 2
       THEN ForcedByAll(g, Branches(g, oracle, {lo} \X g.cand[lo]), t)
       ELSE None
  ELSE LET mid == (lo + hi) \div 2
           f == CellScan(g, oracle, lo, mid, t)
       IN IF IsSome(f) THEN f ELSE CellScan(g, oracle, mid + 1, hi, t)

find_cell_fc(g, oracle) == CellScan(g, oracle, 0, N * N - 1, "CellForcingChain")

\* aic_engine::find_region_fc: the first house and digit (k = house * N +
\* digit - 1, lo <= k <= hi), every position of which forces the same
\* inference.
RegionScan(g, oracle, lo, hi, t) ==
  IF lo = hi
  THEN LET h == lo \div N
           d == (lo % N) + 1
           cs == DigitCells(from_grid(g), h, d)
       IN IF Cardinality(cs) >= 2
          THEN ForcedByAll(g, Branches(g, oracle, cs \X {d}), t)
          ELSE None
  ELSE LET mid == (lo + hi) \div 2
           f == RegionScan(g, oracle, lo, mid, t)
       IN IF IsSome(f) THEN f ELSE RegionScan(g, oracle, mid + 1, hi, t)

find_region_fc(g, oracle) ==
  RegionScan(g, oracle, 0, 3 * N * N - 1, "RegionForcingChain")

\* aic_engine::find_dynamic_fc: the cell forcing chain over the oracle given
\* (the full-technique propagation), tagged DynamicForcingChain.
find_dynamic_fc(g, oracle) ==
  CellScan(g, oracle, 0, N * N - 1, "DynamicForcingChain")

\* One engine call of a pipeline.  The engines below OTHER have no model:
\* their patterns are not searched, and they report no finding.
RunEngine(e, fab, g) ==
  CASE e = "find_naked_single" -> find_naked_single(fab)
    [] e = "find_hidden_single" -> find_hidden_single(fab)
    [] e = "find_naked_subset_2" -> find_naked_subset(fab, 2)
    [] e = "find_hidden_subset_2" -> find_hidden_subset(fab, 2)
    [] e = "find_naked_subset_3" -> find_naked_subset(fab, 3)
    [] e = "find_hidden_subset_3" -> find_hidden_subset(fab, 3)
    [] e = "find_pointing_pair" -> find_pointing_pair(fab)
    [] e = "find_box_line_reduction" -> find_box_line_reduction(fab)
    [] e = "find_basic_fish_2" -> find_basic_fish(fab, 2)
    [] e = "find_basic_fish_3" -> find_basic_fish(fab, 3)
    [] e = "find_basic_fish_4" -> find_basic_fish(fab, 4)
    [] e = "find_naked_subset_4" -> find_naked_subset(fab, 4)
    [] e = "find_hidden_subset_4" -> find_hidden_subset(fab, 4)
    [] e = "find_nishio_fc" -> find_nishio_fc(g, "propagate_singles")
    [] e = "find_region_fc" -> find_region_fc(g, "propagate_singles")
    [] e = "find_cell_fc" -> find_cell_fc(g, "propagate_singles")
    [] e = "find_dynamic_fc" -> find_dynamic_fc(g, "propagate_full")
    [] OTHER -> None

\* Solver::find_first_technique
find_first_technique(g) == TryInOrder(HintPipeline, from_grid(g), g)

----------------------------------------------------------------------------
(* The solver's entry points.  Each returns the caller's grid as the call  *)
(* leaves it, and the value the call returns.                              *)

\* solve searching in the caller's grid itself instead of a clone.
SolveInPlace(grid) ==
  LET working == recalculate_candidates(grid)
      r == solve_recursive(working)
  IN [caller |-> r.grid, out |-> IF r.ok THEN Some(r.grid) ELSE None]

\* Solver::solve
Solve(grid) ==
  LET working == recalculate_candidates(deep_clone(grid))
      r == solve_recursive(working)
  IN [caller |-> grid, out |-> IF r.ok THEN Some(r.grid) ELSE None]

\* Solver::count_solutions
CountSolutions(grid, limit) ==
  LET working == recalculate_candidates(deep_clone(grid))
  IN [caller |-> grid, out |-> count_solutions_recursive(working, 0, limit)]

\* Solver::has_unique_solution
HasUniqueSolution(grid) ==
  LET r == CountSolutions(grid, 2)
  IN [caller |-> r.caller, out |-> (r.out = 1)]

\* The two returns of get_hint: the hint of the first technique's finding,
\* or else the hint of last resort.
FirstHint(finding, last) ==
  IF IsSome(finding) THEN Some(to_hint(finding.v))
  ELSE IF IsSome(last) THEN Some(to_hint(last.v))
  ELSE None

\* get_hint once the working grid is there.
GetHintOn(grid, working) ==
  [caller |-> grid,
   out |-> FirstHint(find_first_technique(working), find_backtracking_hint(working))]

\* get_hint without the recalculation of the working grid's candidates.
GetHintNoRecalculate(grid) == GetHintOn(grid, deep_clone(grid))

\* get_hint without the last resort.
GetHintNoFallback(grid) ==
  [caller |-> grid,
   out |-> FirstHint(find_first_technique(recalculate_candidates(deep_clone(grid))),
                     None)]

\* get_hint with the last resort taken on the caller's grid as it came.
GetHintFallbackOnCaller(grid) ==
  [caller |-> grid,
   out |-> FirstHint(find_first_technique(recalculate_candidates(deep_clone(grid))),
                     find_backtracking_hint(grid))]

\* Solver::get_hint
GetHint(grid) == GetHintOn(grid, recalculate_candidates(deep_clone(grid)))

RECURSIVE TechniquesLoop(_, _, _)
RECURSIVE TechniquesStep(_, _, _, _)

\* The match on the finding, returning Backtracking without running the
\* backtracker when nothing is found.
TechniquesStepGivesUp(g, max_technique, applied, finding) ==
  IF IsSome(finding)
  THEN TechniquesLoop(apply_finding(g, finding.v),
                      IF TechLess(max_technique, finding.v.technique)
                      THEN finding.v.technique ELSE max_technique,
                      Append(applied, finding.v))
  ELSE [grid |-> g, technique |-> "Backtracking",
        applied |-> applied, fallback |-> TRUE]

\* The match on the finding, keeping the technique of the last finding
\* instead of the hardest.
TechniquesStepKeepsLast(g, max_technique, applied, finding) ==
  IF IsSome(finding)
  THEN TechniquesLoop(apply_finding(g, finding.v),
                      finding.v.technique,
                      Append(applied, finding.v))
  ELSE [grid |-> solve_recursive(g).grid, technique |-> "Backtracking",
        applied |-> applied, fallback |-> TRUE]

\* A match that goes through two iterations with one finding: the second
\* applies what the first has applied already.
TechniquesStepTwice(g, max_technique, applied, finding) ==
  IF IsSome(finding)
  THEN TechniquesLoop(apply_finding(apply_finding(g, finding.v), finding.v),
                      IF TechLess(max_technique, finding.v.technique)
                      THEN finding.v.technique ELSE max_technique,
                      Append(Append(applied, finding.v), finding.v))
  ELSE [grid |-> solve_recursive(g).grid, technique |-> "Backtracking",
        applied |-> applied, fallback |-> TRUE]

\* The match on the finding of an iteration: apply it and keep the hardest
\* technique, or finish with the backtracker and return Backtracking.
TechniquesStep(g, max_technique, applied, finding) ==
  IF IsSome(finding)
  THEN TechniquesLoop(apply_finding(g, finding.v),
                      IF TechLess(max_technique, finding.v.technique)
                      THEN finding.v.technique ELSE max_technique,
                      Append(applied, finding.v))
  ELSE [grid |-> solve_recursive(g).grid, technique |-> "Backtracking",
        applied |-> applied, fallback |-> TRUE]

\* A loop that keeps the fabric of the iteration before when that
\* iteration applied an elimination: the engines still see the candidates
\* that were removed from the grid.  The iteration after it builds the
\* fabric anew.
TechniquesLoopStale(g, max_technique, applied) ==
  IF is_complete(g)
  THEN [grid |-> g, technique |-> max_technique, applied |-> applied, fallback |-> FALSE]
  ELSE LET n == Len(applied)
       IN IF /\ n >= 1
             /\ applied[n].kind = "Elimination"
             /\ (n = 1 \/ applied[n - 1] # applied[n])
          THEN TechniquesStep(g, max_technique, applied,
                 TryInOrder(RatePipeline,
                            from_grid([g EXCEPT !.cand[applied[n].cell] =
                                                   @ \cup applied[n].values]),
                            g))
          ELSE TechniquesStep(g, max_technique, applied,
                              TryInOrder(RatePipeline, from_grid(g), g))

\* The while loop of solve_with_techniques: the grid and the technique it
\* ends with, and the findings applied, in order.
TechniquesLoop(g, max_technique, applied) ==
  IF is_complete(g)
  THEN [grid |-> g, technique |-> max_technique, applied |-> applied, fallback |-> FALSE]
  ELSE TechniquesStep(g, max_technique, applied,
                      TryInOrder(RatePipeline, from_grid(g), g))

\* solve_with_techniques starting from the candidates as they came.
solve_with_techniques_stale(g) ==
  TechniquesLoop(g, "NakedSingle", << >>)

\* Solver::solve_with_techniques(grid): mutates the grid it is given.
solve_with_techniques(g) ==
  TechniquesLoop(recalculate_candidates(g), "NakedSingle", << >>)

\* The threshold of technique_to_difficulty on the number of empty cells.
BeginnerMaxEmpty == 35

\* Difficulty, in ascending order.
DifficultyOrder ==
  << "Beginner", "Easy", "Medium", "Intermediate", "Hard", "Expert", "Master",
     "Extreme" >>

DiffRank(d) == CHOOSE i \in DOMAIN DifficultyOrder : DifficultyOrder[i] = d

\* technique_to_difficulty with the hidden quad ranked with the master
\* techniques.
technique_to_difficulty_quads(tech, empty_count) ==
  CASE tech = "NakedSingle" ->
         IF empty_count <= BeginnerMaxEmpty THEN "Beginner" ELSE "Easy"
    [] tech = "HiddenSingle" -> "Medium"
    [] tech \in {"NakedPair", "HiddenPair", "NakedTriple", "HiddenTriple"} ->
         "Intermediate"
    [] tech \in {"PointingPair", "BoxLineReduction"} -> "Hard"
    [] tech \in {"XWing", "FinnedXWing", "Swordfish", "FinnedSwordfish",
                 "Jellyfish", "FinnedJellyfish", "NakedQuad",
                 "EmptyRectangle", "AvoidableRectangle", "UniqueRectangle",
                 "HiddenRectangle"} -> "Expert"
    [] tech \in {"XYWing", "XYZWing", "WXYZWing", "WWing", "XChain",
                 "ThreeDMedusa", "SueDeCoq", "AIC", "FrankenFish", "SiameseFish",
                 "AlsXz", "ExtendedUniqueRectangle", "BivalueUniversalGrave",
                 "HiddenQuad"} -> "Master"
    [] OTHER -> "Extreme"

\* Solver::technique_to_difficulty
technique_to_difficulty(tech, empty_count) ==
  CASE tech = "NakedSingle" ->
         IF empty_count <= BeginnerMaxEmpty THEN "Beginner" ELSE "Easy"
    [] tech = "HiddenSingle" -> "Medium"
    [] tech \in {"NakedPair", "HiddenPair", "NakedTriple", "HiddenTriple"} ->
         "Intermediate"
    [] tech \in {"PointingPair", "BoxLineReduction"} -> "Hard"
    [] tech \in {"XWing", "FinnedXWing", "Swordfish", "FinnedSwordfish",
                 "Jellyfish", "FinnedJellyfish", "NakedQuad", "HiddenQuad",
                 "EmptyRectangle", "AvoidableRectangle", "UniqueRectangle",
                 "HiddenRectangle"} -> "Expert"
    [] tech \in {"XYWing", "XYZWing", "WXYZWing", "WWing", "XChain",
                 "ThreeDMedusa", "SueDeCoq", "AIC", "FrankenFish", "SiameseFish",
                 "AlsXz", "ExtendedUniqueRectangle", "BivalueUniversalGrave"} ->
         "Master"
    [] tech \in {"AlsXyWing", "AlsChain", "MutantFish", "AlignedPairExclusion",
                 "AlignedTripletExclusion", "DeathBlossom", "NishioForcingChain",
                 "KrakenFish", "RegionForcingChain", "CellForcingChain",
                 "DynamicForcingChain", "Backtracking"} -> "Extreme"

\* Technique::se_rating: a fixed rating per technique, kept symbolic.
se_rating(t) == [se_rating_of |-> t]

\* The two propagation oracles that find_first_technique hands on.
Oracles == {"propagate_singles", "propagate_full"}

\* The findings a call of propagate_full applies; propagate_singles keeps
\* no findings.
OracleApplied(oracle, g, c, v) ==
  IF oracle = "propagate_full"
  THEN PropagateRun(Hypothesis(g, c, v), PropagateCap, << >>).applied
  ELSE << >>

\* A call of an oracle that works in the grid received instead of a copy.
CallOracleInPlace(oracle, grid, c, v) ==
  [caller |-> Propagate(oracle, grid, c, v)[1],
   out |-> Propagate(oracle, grid, c, v),
   run |-> [applied |-> OracleApplied(oracle, grid, c, v),
            fallback |-> FALSE, grid |-> None]]

\* A call of an oracle closure: the grid received as the call leaves it,
\* the pair returned, and for propagate_full the findings it applied.
CallOracle(oracle, grid, c, v) ==
  [caller |-> grid,
   out |-> Propagate(oracle, grid, c, v),
   run |-> [applied |-> OracleApplied(oracle, grid, c, v),
            fallback |-> FALSE, grid |-> None]]

\* What a call of solve_with_techniques did: the findings it applied,
\* whether it fell back, and the grid it left in the working copy.
RunOf(r) == [applied |-> r.applied, fallback |-> r.fallback, grid |-> Some(r.grid)]

\* rate_difficulty once solve_with_techniques has returned.
RatedDifficulty(grid, empty_count, r) ==
  [caller |-> grid, out |-> technique_to_difficulty(r.technique, empty_count),
   run |-> RunOf(r)]

\* Solver::rate_difficulty
RateDifficulty(grid) ==
  RatedDifficulty(grid, Cardinality(empty_positions(grid)),
                  solve_with_techniques(deep_clone(grid)))

\* rate_se once solve_with_techniques has returned.
RatedSe(grid, r) ==
  [caller |-> grid, out |-> se_rating(r.technique), run |-> RunOf(r)]

\* Solver::rate_se
RateSe(grid) == RatedSe(grid, solve_with_techniques(deep_clone(grid)))

----------------------------------------------------------------------------
(* Atomic file writes (sudoku-tui/src/persistence.rs).  A path is the      *)
(* sequence of its components; the disk holds the content at the target    *)
(* path and the temporary file, each None when there is no such file.      *)

\* Path::parent: the path without its last component, None for the empty
\* path.
parent(path) ==
  IF Len(path) = 0 THEN None ELSE Some(SubSeq(path, 1, Len(path) - 1))

\* Option::unwrap_or
unwrap_or(o, default) == IF IsSome(o) THEN o.v ELSE default

\* The directory a relative directory path names: the empty path and "."
\* both name the working directory.
Resolve(dir) == IF dir = << >> \/ dir = << "." >> THEN << "." >> ELSE dir

\* NamedTempFile::new_in(dir): an empty temporary file in dir.
new_in(fs, dir) == [fs EXCEPT !.tmp = Some([dir |-> Resolve(dir), bytes |-> << >>])]

\* A write that puts the byte into the file at the target path itself.
write_in_place(fs, b) ==
  [fs EXCEPT !.tmp = Some([@.v EXCEPT !.bytes = Append(@, b)]),
             !.target = Some(Append(fs.tmp.v.bytes, b))]

\* One write of write_all: the next byte goes to the end of the temporary
\* file.
write(fs, b) == [fs EXCEPT !.tmp = Some([@.v EXCEPT !.bytes = Append(@, b)])]

\* NamedTempFile::persist(path): the temporary file is renamed onto the
\* target path in one step.
persist(fs) == [target |-> Some(fs.tmp.v.bytes), tmp |-> None]

\* Dropping NamedTempFile deletes the temporary file.
drop(fs) == [fs EXCEPT !.tmp = None]

----------------------------------------------------------------------------
(* The token cache of the telemetry (sudoku-tui/src/telemetry.rs).  A      *)
(* CachedToken is [token, expires_at]; the cache holds one or None.        *)

\* The margin of get_token: a cached token is used only when it lives for
\* more than this many seconds from now.
TokenMargin == 60

\* The check of get_token that takes the margin for part of the lifetime.
cached_token_late(cache, clock) ==
  IF IsSome(cache) /\ cache.v.expires_at + TokenMargin > clock
  THEN Some(cache.v.token) ELSE None

\* The check of get_token on the cache: the cached token when it is still
\* valid with the margin, None when a token has to be fetched.
cached_token(cache, clock) ==
  IF IsSome(cache) /\ cache.v.expires_at > clock + TokenMargin
  THEN Some(cache.v.token) ELSE None

\* *cache = Some(new_token)
store(cache, new_token) == Some(new_token)

\* A handler of the answer that leaves the cache alone.
on_response_keep(cache, status) == cache

\* The match on the answer to a submission: 401 clears the cache, any
\* other answer leaves it (200 stands for Ok, 0 for a transport error).
on_response(cache, status) == IF status = 401 THEN None ELSE cache

----------------------------------------------------------------------------
(* The caller's side of submit_result: the data directory and the player   *)
(* id file (persistence.rs, telemetry.rs).  A file's content is a sequence *)
(* of bytes, the byte 0 standing for white space.                          *)

\* The step of atomic_write that fails, "none" when the call succeeds.
Failures == {"none", "new_in", "write_all", "persist"}

RECURSIVE write_all(_, _, _)
\* tmp.write_all(data), from the k-th byte on.
write_all(fs, data, k) ==
  IF k > Len(data) THEN fs ELSE write_all(write(fs, data[k]), data, k + 1)

\* atomic_write from its call to its return, given the step that fails.
atomic_write(fs, path, data, failed) ==
  IF failed = "new_in" THEN [fs |-> fs, result |-> "Err"]
  ELSE IF failed = "write_all"
  THEN [fs |-> drop(new_in(fs, unwrap_or(parent(path), << "." >>))),
        result |-> "Err"]
  ELSE IF failed = "persist"
  THEN [fs |-> drop(write_all(new_in(fs, unwrap_or(parent(path), << "." >>)),
                              data, 1)),
        result |-> "Err"]
  ELSE [fs |-> persist(write_all(new_in(fs, unwrap_or(parent(path), << "." >>)),
                                 data, 1)),
        result |-> "Ok"]

\* app_data_dir: home says whether the platform has a local data directory,
\* exists whether its sudoku directory is there, creatable whether
\* create_dir_all succeeds.  Either expect panics on its failure.
app_data_dir(home, exists, creatable) ==
  IF ~home THEN [panic |-> TRUE, exists |-> exists]
  ELSE IF ~exists
  THEN IF creatable THEN [panic |-> FALSE, exists |-> TRUE]
       ELSE [panic |-> TRUE, exists |-> FALSE]
  ELSE [panic |-> FALSE, exists |-> TRUE]

RECURSIVE trim_start(_)
\* The content without its leading white space.
trim_start(bytes) ==
  IF bytes # << >> /\ Head(bytes) = 0 THEN trim_start(Tail(bytes)) ELSE bytes

RECURSIVE trim_end(_)
\* The content without its trailing white space.
trim_end(bytes) ==
  IF bytes # << >> /\ bytes[Len(bytes)] = 0
  THEN trim_end(SubSeq(bytes, 1, Len(bytes) - 1)) ELSE bytes

\* str::trim
trim(bytes) == trim_start(trim_end(bytes))

\* The path of the player id file.
player_id_path == << "sudoku", "sudoku_player_id" >>

\* player_id: the trimmed content of the file when it can be read and is
\* not empty; else the new id, written to the file with the result of the
\* write ignored.
player_id(fs, readable, id, failed) ==
  IF readable /\ IsSome(fs.target) /\ trim(fs.target.v) # << >>
  THEN [id |-> trim(fs.target.v), fs |-> fs, wrote |-> FALSE]
  ELSE [id |-> id, fs |-> atomic_write(fs, player_id_path, id, failed).fs,
        wrote |-> TRUE]

\* The match on the result of the game: a Win or a Loss goes on, any other
\* result returns.
submits(result) == result \in {"Win", "Loss"}

----------------------------------------------------------------------------
(* The state machine: a caller holds a grid and calls the solver's entry   *)
(* points on it; the hint loop of test_hint_soundness applies the hint it  *)
(* was given to its grid and asks again.                                   *)

VARIABLES
  grid,     \* the caller's grid
  ret,      \* the last call, its argument and what it returned
  run,      \* what the last call did inside (the findings it applied)
  steps,    \* the step counter of the hint loop
  disk,     \* the file at the path atomic_write is called on, and its temporary file
  aw,       \* the call of atomic_write: its position, arguments and result
  TOKEN_CACHE,  \* the cached token or None
  now,      \* the clock, in seconds
  lock,     \* the thread that holds the lock of the token cache, 0 for none
  threads,  \* the submission threads: position, token carried, answer
  net,      \* the server's side: requests received, tokens issued and rejected
  app       \* the process that submits: its file system and what it did there

\* The state of the telemetry.
telVars == <<TOKEN_CACHE, now, lock, threads, net, app>>

\* The state outside the solver.
ioVars == <<disk, aw, TOKEN_CACHE, now, lock, threads, net, app>>

vars ==
  <<grid, ret, run, steps, disk, aw, TOKEN_CACHE, now, lock, threads, net, app>>

\* The number of results submitted, the clock's step and its last value.
MaxSubmits == 2

TickStep == 30

MaxTime == 120

\* The longest data handed to atomic_write.
MaxDataLen == 2

\* The largest limit handed to count_solutions.
MaxLimit == 3

\* The hint loop's step limit, and the model's cap on it.
HintStepLimit == 300

MaxSteps == 17

\* The largest empty-cell count handed to technique_to_difficulty.
MaxEmptyCount == 40

\* The number of cells of a seed puzzle that a starting grid may differ in.
MaxEdits == 1

\* Seed puzzles (row-major, 0 = empty): a complete grid and a puzzle with
\* one solution.
SeedPuzzles ==
  { << 1,2,3,4,  3,4,1,2,  2,1,4,3,  4,3,2,1 >>,
    << 1,0,0,0,  0,0,3,0,  0,4,0,0,  0,0,0,2 >> }

\* Puzzles the techniques beyond the naked single are found on: the empty
\* grid, a grid with a naked pair, a grid with a Nishio forcing chain, and
\* two grids with conflicting givens that the techniques fill to the end
\* (with hidden singles, and with a hidden pair).
SparsePuzzles ==
  { << 0,0,0,0,  0,0,0,0,  0,0,0,0,  0,0,0,0 >>,
    << 1,2,0,0,  0,0,0,0,  0,0,0,0,  0,0,0,0 >>,
    << 1,0,0,0,  0,0,0,0,  0,0,0,0,  2,0,0,3 >>,
    << 3,2,3,0,  3,0,0,0,  0,0,4,0,  0,0,0,0 >>,
    << 1,0,0,4,  0,0,0,0,  0,0,4,0,  4,0,0,4 >> }

RECURSIVE Edited(_, _)
\* The puzzles that differ from p in at most k cells.
Edited(p, k) ==
  IF k = 0 THEN {p}
  ELSE LET E == Edited(p, k - 1)
       IN E \cup {[q EXCEPT ![i] = v] : q \in E, i \in 1..(N * N), v \in 0..N}

\* The cells a caller has struck a candidate from, and the digits struck.
MarkCells == {1}

MarkDigits == {2, 3}

\* Grids a caller holds after recalculating the candidates and striking one
\* candidate from a cell: the solver's clone starts with stale candidates.
\* They are taken from the empty grid and from the puzzle with one solution.
MarkedGrids ==
  {remove_candidate(recalculate_candidates(from_string(p)), c, v) :
     p \in {<< 0,0,0,0,  0,0,0,0,  0,0,0,0,  0,0,0,0 >>,
            << 1,0,0,0,  0,0,3,0,  0,4,0,0,  0,0,0,2 >>},
     c \in MarkCells, v \in MarkDigits}

\* The grids a caller starts with: parsed puzzles, and marked grids.
InitGrids ==
  {from_string(q) :
     q \in SparsePuzzles \cup UNION {Edited(p, MaxEdits) : p \in SeedPuzzles}}
  \cup MarkedGrids

NoRun == [applied |-> << >>, fallback |-> FALSE, grid |-> None]

\* The bytes of a file, the data a caller may write, and the paths it may
\* write to: a file in the data directory, and a bare file name.
Bytes == {0, 1}

Payloads == UNION {[1..n -> Bytes] : n \in 0..MaxDataLen}

Paths == { << "sudoku", "stats" >>, << "stats" >> }

\* No call of atomic_write yet, an empty disk.
NoWrite ==
  [pc |-> "idle", path |-> << "stats" >>, data |-> << >>, done |-> 0,
   result |-> None, prev |-> None]

NoDisk == [target |-> None, tmp |-> None]

\* The lifetimes of the tokens the server issues, in seconds.
Lifetimes == {30, 60, 90}

\* The answers to a submission: Ok, the statuses 401, 429 and 500, and 0
\* for an error of the transport.
Responses == {200, 401, 429, 500, 0}

Threads == 1..MaxSubmits

\* A thread not spawned yet.
NoThread == [pc |-> "idle", token |-> None, posts |-> 0, status |-> 0]

\* A process that has its data directory on a file system that does not
\* fail (faults), that has not panicked, and that has neither read the
\* player id file nor called atomic_write on it.
NoApp ==
  [faults |-> FALSE, dir |-> TRUE, panicked |-> FALSE, reads |-> 0, writes |-> 0]

\* The ids that player_id generates.
Ids == { << 1 >>, << 1, 1 >> }

\* No token cached, nothing submitted.
TelemetryIdle ==
  /\ app = NoApp
  /\ TOKEN_CACHE = None
  /\ now = 0
  /\ lock = 0
  /\ threads = [t \in Threads |-> NoThread]
  /\ net = [token_requests |-> 0, posts |-> 0, issued |-> << >>, rejected |-> {}]

\* The caller of the solver: nothing is written or submitted.
IoIdle == disk = NoDisk /\ aw = NoWrite /\ TelemetryIdle

\* No solver call: the blank grid, nothing returned.
SolverIdle ==
  /\ grid = from_string([c \in 1..(N * N) |-> 0])
  /\ ret = [op |-> "none", arg |-> 0, out |-> None]
  /\ run = NoRun
  /\ steps = 0

Init ==
  /\ grid \in InitGrids
  /\ ret = [op |-> "none", arg |-> 0, out |-> None]
  /\ run = NoRun
  /\ steps = 0
  /\ IoIdle

\* The caller is between two calls: the last result has been used.
Ready == ret.op \in {"none", "apply"}

DoSolve ==
  /\ Ready
  /\ \E r \in {Solve(grid)} :
        /\ grid' = r.caller
        /\ ret' = [op |-> "solve", arg |-> 0, out |-> r.out]
  /\ run' = NoRun
  /\ UNCHANGED <<steps, ioVars>>

DoCountSolutions ==
  /\ Ready
  /\ \E limit \in 0..MaxLimit :
       \E r \in {CountSolutions(grid, limit)} :
          /\ grid' = r.caller
          /\ ret' = [op |-> "count_solutions", arg |-> limit, out |-> r.out]
  /\ run' = NoRun
  /\ UNCHANGED <<steps, ioVars>>

DoHasUniqueSolution ==
  /\ Ready
  /\ \E r \in {HasUniqueSolution(grid)} :
        /\ grid' = r.caller
        /\ ret' = [op |-> "has_unique_solution", arg |-> 0, out |-> r.out]
  /\ run' = NoRun
  /\ UNCHANGED <<steps, ioVars>>

DoGetHint ==
  /\ Ready
  /\ \E r \in {GetHint(grid)} :
        /\ grid' = r.caller
        /\ ret' = [op |-> "get_hint", arg |-> 0, out |-> r.out]
  /\ run' = NoRun
  /\ UNCHANGED <<steps, ioVars>>

\* The body of the hint loop after get_hint returned Some(hint).
ApplyHint ==
  /\ ret.op = "get_hint"
  /\ IsSome(ret.out)
  /\ ~is_complete(grid)
  /\ steps < HintStepLimit
  /\ steps < MaxSteps
  /\ LET hint == ret.out.v
         c == pos_to_idx(hint.pos)
     IN grid' = IF hint.hint_type = "SetValue"
                THEN recalculate_candidates(
                       set_cell_unchecked(grid, c, CHOOSE v \in hint.values : TRUE))
                ELSE [grid EXCEPT !.cand[c] = @ \ hint.values]
  /\ ret' = [op |-> "apply", arg |-> 0, out |-> ret.out]
  /\ run' = NoRun
  /\ steps' = steps + 1
  /\ UNCHANGED ioVars

DoRateDifficulty ==
  /\ Ready
  /\ \E r \in {RateDifficulty(grid)} :
        /\ grid' = r.caller
        /\ ret' = [op |-> "rate_difficulty", arg |-> 0, out |-> r.out]
        /\ run' = r.run
  /\ UNCHANGED <<steps, ioVars>>

DoRateSe ==
  /\ Ready
  /\ \E r \in {RateSe(grid)} :
        /\ grid' = r.caller
        /\ ret' = [op |-> "rate_se", arg |-> 0, out |-> r.out]
        /\ run' = r.run
  /\ UNCHANGED <<steps, ioVars>>

\* technique_to_difficulty applied to a technique and an empty-cell count.
\* The function reads nothing of a grid, so it is applied from one starting
\* grid only, the blank one.
DoTechniqueToDifficulty ==
  /\ Ready
  /\ grid = from_string([c \in 1..(N * N) |-> 0])
  /\ \E tech \in Techniques, empty_count \in 0..MaxEmptyCount :
       ret' = [op |-> "technique_to_difficulty",
               arg |-> <<tech, empty_count>>,
               out |-> technique_to_difficulty(tech, empty_count)]
  /\ run' = NoRun
  /\ UNCHANGED <<grid, steps, ioVars>>

\* An oracle applied to a hypothesis on an unsolved cell.
DoPropagate ==
  /\ Ready
  /\ \E oracle \in Oracles, c \in empty_positions(grid), v \in Digits :
       \E r \in {CallOracle(oracle, grid, c, v)} :
          /\ grid' = r.caller
          /\ ret' = [op |-> oracle, arg |-> <<c, v>>, out |-> r.out]
          /\ run' = r.run
  /\ UNCHANGED <<steps, ioVars>>

----------------------------------------------------------------------------
(* atomic_write, step by step: the temporary file is created, the data is  *)
(* written to it byte by byte, the file is renamed onto the target.  Each  *)
(* step may fail, and the process may crash between any two steps.         *)

\* The positions of a call in progress.
InProgress == {"new_in", "write_all", "persist"}

\* atomic_write(path, data) is called; the path stays the one first used.
\* A temporary file that a crashed call left behind is followed no further.
AtomicWrite ==
  /\ aw.pc \notin InProgress
  /\ \E path \in Paths, data \in Payloads :
       /\ aw.pc = "idle" \/ path = aw.path
       /\ aw' = [pc |-> "new_in", path |-> path, data |-> data, done |-> 0,
                 result |-> None, prev |-> disk.target]
  /\ disk' = drop(disk)
  /\ UNCHANGED <<grid, ret, run, steps, telVars>>

\* let mut tmp = NamedTempFile::new_in(dir)?
NewIn ==
  /\ aw.pc = "new_in"
  /\ \E ok \in BOOLEAN :
       IF ok
       THEN /\ disk' = new_in(disk, unwrap_or(parent(aw.path), << "." >>))
            /\ aw' = [aw EXCEPT !.pc = "write_all"]
       ELSE /\ disk' = disk
            /\ aw' = [aw EXCEPT !.pc = "returned", !.result = Some("Err")]
  /\ UNCHANGED <<grid, ret, run, steps, telVars>>

\* tmp.write_all(data)?: one more byte, or the error that ends the call and
\* drops the temporary file; after the last byte the call goes on.
WriteAll ==
  /\ aw.pc = "write_all"
  /\ IF aw.done = Len(aw.data)
     THEN /\ aw' = [aw EXCEPT !.pc = "persist"]
          /\ disk' = disk
     ELSE \E ok \in BOOLEAN :
            IF ok
            THEN /\ disk' = write(disk, aw.data[aw.done + 1])
                 /\ aw' = [aw EXCEPT !.done = @ + 1]
            ELSE /\ disk' = drop(disk)
                 /\ aw' = [aw EXCEPT !.pc = "returned", !.result = Some("Err")]
  /\ UNCHANGED <<grid, ret, run, steps, telVars>>

\* tmp.persist(path).map_err(|e| e.error)?; Ok(())
Persist ==
  /\ aw.pc = "persist"
  /\ \E ok \in BOOLEAN :
       IF ok
       THEN /\ disk' = persist(disk)
            /\ aw' = [aw EXCEPT !.pc = "returned", !.result = Some("Ok")]
       ELSE /\ disk' = drop(disk)
            /\ aw' = [aw EXCEPT !.pc = "returned", !.result = Some("Err")]
  /\ UNCHANGED <<grid, ret, run, steps, telVars>>

\* The process dies in the middle of a call: nothing is cleaned up.
Crash ==
  /\ aw.pc \in InProgress
  /\ aw' = [aw EXCEPT !.pc = "crashed"]
  /\ UNCHANGED <<grid, ret, run, steps, disk, telVars>>

----------------------------------------------------------------------------
(* submit_result: a Win or a Loss spawns a thread that gets a token, posts *)
(* the result and handles the answer.  get_token holds the lock of the     *)
(* cache from its check to its return.                                     *)

\* The process runs: a panic of the caller ends it with its threads.
Alive == ~app.panicked

\* What may happen to the file system during a call: anything when it may
\* fail, nothing when it is sound.
Outcomes(faulty) == IF faulty THEN BOOLEAN ELSE {TRUE}

\* submit_result(record, se_rating): for a result that is no Win and no
\* Loss the function returns at once.  For a Win or a Loss the caller asks
\* for the player id, which may panic in app_data_dir, and spawns the next
\* thread.
SubmitResult ==
  \E t \in Threads, result \in {"Win", "Loss", "Abandoned"} :
    /\ Alive
    /\ threads[t].pc = "idle"
    /\ \A u \in Threads : u < t => threads[u].pc # "idle"
    /\ IF ~submits(result)
       THEN /\ threads' = [threads EXCEPT ![t].pc = "skipped"]
            /\ UNCHANGED <<app, disk>>
       ELSE \E home \in Outcomes(app.faults), creatable \in Outcomes(app.faults),
               readable \in Outcomes(app.faults), id \in Ids,
               failed \in IF app.faults THEN Failures ELSE {"none"} :
              \E d \in {app_data_dir(home, app.dir, creatable)} :
                IF d.panic
                THEN /\ app' = [app EXCEPT !.dir = d.exists, !.panicked = TRUE]
                     /\ UNCHANGED <<threads, disk>>
                ELSE \E p \in {player_id(disk, readable, id, failed)} :
                       /\ disk' = p.fs
                       /\ threads' = [threads EXCEPT ![t].pc = "get_token"]
                       /\ app' = [app EXCEPT !.dir = d.exists,
                                             !.reads = @ + 1,
                                             !.writes = IF p.wrote THEN @ + 1 ELSE @]
    /\ UNCHANGED <<grid, ret, run, steps, aw, TOKEN_CACHE, now, lock, net>>

\* get_token, from the lock to the check: the cached token is returned, or
\* the request to the token endpoint is sent with the lock held.
GetToken ==
  \E t \in Threads :
    /\ Alive
    /\ threads[t].pc = "get_token"
    /\ lock = 0
    /\ \E c \in {cached_token(TOKEN_CACHE, now)} :
         IF IsSome(c)
         THEN /\ threads' = [threads EXCEPT ![t].pc = "post", ![t].token = c]
              /\ UNCHANGED <<lock, net>>
         ELSE /\ threads' = [threads EXCEPT ![t].pc = "fetch"]
              /\ lock' = t
              /\ net' = [net EXCEPT !.token_requests = @ + 1]
    /\ UNCHANGED <<grid, ret, run, steps, disk, aw, TOKEN_CACHE, now, app>>

\* fetch_token returns: None when the request or the parsing failed, else
\* the token the server issued, which get_token stores and returns.
FetchReply ==
  \E t \in Threads :
    /\ Alive
    /\ threads[t].pc = "fetch"
    /\ \E ok \in BOOLEAN, life \in Lifetimes :
         IF ok
         THEN \E new_token \in {[token |-> Len(net.issued) + 1,
                                  expires_at |-> now + life]} :
                /\ TOKEN_CACHE' = store(TOKEN_CACHE, new_token)
                /\ net' = [net EXCEPT !.issued = Append(@, new_token.expires_at)]
                /\ threads' = [threads EXCEPT ![t].pc = "post",
                                              ![t].token = Some(new_token.token)]
         ELSE /\ threads' = [threads EXCEPT ![t].pc = "post", ![t].token = None]
              /\ UNCHANGED <<TOKEN_CACHE, net>>
    /\ lock' = 0
    /\ UNCHANGED <<grid, ret, run, steps, disk, aw, now, app>>

\* req.send_string(body): the one POST of the thread, with the token if
\* there is one.
Post ==
  \E t \in Threads :
    /\ Alive
    /\ threads[t].pc = "post"
    /\ threads' = [threads EXCEPT ![t].pc = "await", ![t].posts = @ + 1]
    /\ net' = [net EXCEPT !.posts = @ + 1]
    /\ UNCHANGED <<grid, ret, run, steps, disk, aw, TOKEN_CACHE, now, lock, app>>

\* match resp: the answer arrives and the thread ends; on 401 it takes the
\* lock and clears the cache.
Response ==
  \E t \in Threads, status \in Responses :
    /\ Alive
    /\ threads[t].pc = "await"
    /\ status = 401 => lock = 0
    /\ TOKEN_CACHE' = on_response(TOKEN_CACHE, status)
    /\ threads' = [threads EXCEPT ![t].pc = "done", ![t].status = status]
    /\ net' = [net EXCEPT !.rejected =
                 IF status = 401 /\ IsSome(threads[t].token)
                 THEN @ \cup {threads[t].token.v} ELSE @]
    /\ UNCHANGED <<grid, ret, run, steps, disk, aw, now, lock, app>>

\* Time passes.
Tick ==
  /\ Alive
  /\ now + TickStep <= MaxTime
  /\ now' = now + TickStep
  /\ UNCHANGED <<grid, ret, run, steps, disk, aw, TOKEN_CACHE, lock, threads, net,
                 app>>


Next ==
  \/ DoSolve
  \/ DoCountSolutions
  \/ DoHasUniqueSolution
  \/ DoGetHint
  \/ ApplyHint
  \/ DoRateDifficulty
  \/ DoRateSe

Spec == Init /\ [][Next]_vars

\* The six entry points, each called on the grid the caller starts with.
CallNext ==
  \/ DoSolve
  \/ DoCountSolutions
  \/ DoHasUniqueSolution
  \/ DoGetHint
  \/ DoRateDifficulty
  \/ DoRateSe

CallSpec == Init /\ [][CallNext]_vars

\* The backtracking entry points alone.
SolveNext == DoSolve \/ DoCountSolutions \/ DoHasUniqueSolution

SolveSpec == Init /\ [][SolveNext]_vars

\* The hint loop alone.
HintNext == DoGetHint \/ ApplyHint

HintSpec == Init /\ [][HintNext]_vars

\* atomic_write alone.
WriteInit == SolverIdle /\ IoIdle

WriteNext == AtomicWrite \/ NewIn \/ WriteAll \/ Persist \/ Crash

WriteSpec == WriteInit /\ [][WriteNext]_vars

\* The telemetry alone.
\* A process that has submitted before: its data directory and its player
\* id file are there, and its file system does not fail.
TelemetryInit ==
  /\ SolverIdle
  /\ aw = NoWrite
  /\ TelemetryIdle
  /\ disk = [target |-> Some(<< 1 >>), tmp |-> None]

TelemetryNext == SubmitResult \/ GetToken \/ FetchReply \/ Post \/ Response \/ Tick

TelemetrySpec == TelemetryInit /\ [][TelemetryNext]_vars

\* The player id files a process may start with: none without the data
\* directory; none, a blank one or one with an id in the directory.
StartFiles == {None, Some(<< 0 >>), Some(<< 1 >>)}

\* The telemetry of a process on a file system that may fail on any call.
SubmitInit ==
  /\ SolverIdle
  /\ aw = NoWrite
  /\ TOKEN_CACHE = None
  /\ now = 0
  /\ lock = 0
  /\ threads = [t \in Threads |-> NoThread]
  /\ net = [token_requests |-> 0, posts |-> 0, issued |-> << >>, rejected |-> {}]
  /\ \E dir \in BOOLEAN, file \in StartFiles :
       /\ ~dir => file = None
       /\ app = [NoApp EXCEPT !.faults = TRUE, !.dir = dir]
       /\ disk = [target |-> file, tmp |-> None]

SubmitSpec == SubmitInit /\ [][TelemetryNext]_vars

\* The two loops that build a fabric in every iteration: the one of
\* solve_with_techniques, through rate_se, and the one of propagate_full.
FabricNext == DoRateSe \/ DoPropagate

FabricSpec == Init /\ [][FabricNext]_vars

\* The propagation oracles alone.
PropNext == DoPropagate

PropSpec == Init /\ [][PropNext]_vars

\* The rating entry points alone.
RateNext == DoRateDifficulty \/ DoRateSe \/ DoTechniqueToDifficulty

RateSpec == Init /\ [][RateNext]_vars

----------------------------------------------------------------------------
(* What the claims are measured against: the completions of a grid, found  *)
(* by enumeration, without the backtracker.                                *)

\* A full assignment of digits in which every house holds every digit.
ValidSolution(v) == \A h \in Houses : {v[c] : c \in HouseCells[h]} = Digits

\* The rows: the assignments of the N digits to the N columns.
RowPerms == {p \in [0..(N - 1) -> Digits] : \A i, j \in 0..(N - 1) : p[i] = p[j] => i = j}

RECURSIVE StackRows(_)
\* The stacks of the first r rows in which no column and no box repeats a
\* digit.
StackRows(r) ==
  IF r = 0 THEN {<< >>}
  ELSE {Append(st, p) : st \in StackRows(r - 1), p \in RowPerms} \cap
       {st2 \in Seq(RowPerms) :
          \A i \in 1..(Len(st2) - 1) : \A c1, c2 \in 0..(N - 1) :
             st2[i][c1] = st2[Len(st2)][c2] =>
               /\ c1 # c2
               /\ ~(((i - 1) \div BoxSize = (Len(st2) - 1) \div BoxSize)
                    /\ (c1 \div BoxSize = c2 \div BoxSize))}

\* Every solved grid there is.
AllSolutions ==
  {[c \in Cells |-> st[RowOf(c) + 1][ColOf(c)]] : st \in StackRows(N)}

\* The completions of a grid: the solved grids that keep its givens.
Completions(g) ==
  {v \in AllSolutions : \A c \in Cells : g.val[c] # 0 => v[c] = g.val[c]}

\* Two givens of one house hold the same digit.
ConflictingGivens(g) ==
  \E c \in Cells : g.val[c] # 0 /\ \E p \in Peers[c] : g.val[p] = g.val[c]

\* The given digits of g are kept by the grid v.
KeepsGivens(g, v) == \A c \in Cells : g.val[c] # 0 => v[c] = g.val[c]

----------------------------------------------------------------------------
(* Claims about the backtracking entry points                              *)

\* C3: solve returns Some(S') with S' complete, every house of S' a
\* permutation of the digits and S' keeping the givens, for every grid that
\* has a solution, and None for every grid that has none.
C3_SolveSound ==
  ret.op = "solve" =>
    IF Completions(grid) # {}
    THEN /\ IsSome(ret.out)
         /\ is_complete(ret.out.v)
         /\ ValidSolution(ret.out.v.val)
         /\ KeepsGivens(grid, ret.out.v.val)
    ELSE ret.out = None

\* C3 on the grids whose givens do not conflict.
C3_SolveSoundNoConflict == ~ConflictingGivens(grid) => C3_SolveSound

Min(a, b) == IF a <= b THEN a ELSE b

\* C4: count_solutions(G, limit) is min(limit, number of completions of G),
\* for every grid and every limit.
C4_CountIsMin ==
  ret.op = "count_solutions" =>
    ret.out = Min(ret.arg, Cardinality(Completions(grid)))

\* C4 on the grids whose givens do not conflict.
C4_CountIsMinNoConflict == ~ConflictingGivens(grid) => C4_CountIsMin

\* C5: has_unique_solution(G) is true exactly when G has one completion.
C5_UniqueIffOne ==
  ret.op = "has_unique_solution" =>
    (ret.out <=> Cardinality(Completions(grid)) = 1)

\* C5 on the grids whose givens do not conflict.
C5_UniqueIffOneNoConflict == ~ConflictingGivens(grid) => C5_UniqueIffOne

----------------------------------------------------------------------------
(* Claims about get_hint and the hint loop                                 *)

\* The technique each engine call reports its findings under.
EngineTechnique(e) ==
  CASE e = "find_naked_single" -> "NakedSingle"
    [] e = "find_hidden_single" -> "HiddenSingle"
    [] e = "find_naked_subset_2" -> "NakedPair"
    [] e = "find_hidden_subset_2" -> "HiddenPair"
    [] e = "find_naked_subset_3" -> "NakedTriple"
    [] e = "find_hidden_subset_3" -> "HiddenTriple"
    [] e = "find_pointing_pair" -> "PointingPair"
    [] e = "find_box_line_reduction" -> "BoxLineReduction"
    [] e = "find_basic_fish_2" -> "XWing"
    [] e = "find_basic_fish_3" -> "Swordfish"
    [] e = "find_basic_fish_4" -> "Jellyfish"
    [] e = "find_naked_subset_4" -> "NakedQuad"
    [] e = "find_hidden_subset_4" -> "HiddenQuad"
    [] e = "find_nishio_fc" -> "NishioForcingChain"
    [] e = "find_region_fc" -> "RegionForcingChain"
    [] e = "find_cell_fc" -> "CellForcingChain"
    [] e = "find_dynamic_fc" -> "DynamicForcingChain"
    [] OTHER -> "Backtracking"

\* The engine calls that have a model.
ModelledEngines ==
  {e \in {RatePipeline[i] : i \in DOMAIN RatePipeline} :
     EngineTechnique(e) # "Backtracking"}

\* The hint that get_hint returned for the grid of the current state.
HintReturned == ret.op = "get_hint" /\ IsSome(ret.out)

HintCell == pos_to_idx(ret.out.v.pos)

\* C1: on a grid with exactly one solution S, a SetValue hint places
\* S[cell] and an EliminateCandidates hint does not remove S[cell],
\* whichever technique produced the hint; the hints of the techniques (all
\* but the Backtracking hint) are held to the same against every solution
\* of a grid that has several.
C1_HintsSound ==
  HintReturned =>
    \A S \in Completions(grid) :
      (Cardinality(Completions(grid)) = 1 \/ ret.out.v.technique # "Backtracking") =>
        IF ret.out.v.hint_type = "SetValue"
        THEN ret.out.v.values = {S[HintCell]}
        ELSE S[HintCell] \notin ret.out.v.values

\* A hint that eliminates candidates, on a grid that has solutions, after a
\* hint was applied.
EliminationHintReached ==
  /\ HintReturned
  /\ ret.out.v.hint_type = "EliminateCandidates"
  /\ Completions(grid) # {}
  /\ steps >= 1

\* C1's case: the loop has applied hints and the next hint is there, on a
\* grid with one solution and cells left to solve.
C1_Witness ==
  /\ HintReturned
  /\ steps >= 2
  /\ Cardinality(Completions(grid)) = 1
  /\ Cardinality(empty_positions(grid)) >= 2

\* C2: when get_hint returns a hint of technique T, no engine of a technique
\* below T has a finding on the recalculated grid.
C2_PipelineOrder ==
  HintReturned =>
    LET w == recalculate_candidates(grid)
    IN \A e \in ModelledEngines :
         TechLess(EngineTechnique(e), ret.out.v.technique) =>
           RunEngine(e, from_grid(w), w) = None

\* C2's case: a hint of a technique that is not the first of the order.
C2_Witness ==
  HintReturned /\ ret.out.v.technique \in {"NakedPair", "HiddenPair"}

\* C6: get_hint returns a hint for every grid that is incomplete and has a
\* solution.
C6_HintUnlessDoneOrUnsolvable ==
  (ret.op = "get_hint" /\ ~is_complete(grid) /\ Completions(grid) # {}) =>
    IsSome(ret.out)

\* C6's case: a hint for an incomplete grid with several solutions that no
\* technique has a finding for.
C6_Witness ==
  /\ HintReturned
  /\ ~is_complete(grid)
  /\ Cardinality(Completions(grid)) > 1
  /\ ret.out.v.technique = "Backtracking"

\* C7: when no technique has a finding on an incomplete grid that has a
\* solution, the hint is tagged Backtracking and sets the first unsolved
\* cell to its digit in the grid a full solve produces.
C7_BacktrackingHint ==
  (/\ ret.op = "get_hint"
   /\ ~is_complete(grid)
   /\ Completions(grid) # {}
   /\ find_first_technique(recalculate_candidates(grid)) = None) =>
    LET c == SetMin(empty_positions(grid))
    IN ret.out = Some([technique |-> "Backtracking",
                       hint_type |-> "SetValue",
                       pos |-> [row |-> c \div N, col |-> c % N],
                       values |-> {Solve(grid).out.v.val[c]}])

\* C7's case: a Backtracking hint returned in the hint loop after a hint
\* was applied.
C7_Witness ==
  /\ HintReturned
  /\ ret.out.v.technique = "Backtracking"
  /\ steps >= 1
  /\ Completions(grid) # {}

----------------------------------------------------------------------------
(* Claims about the rating entry points                                    *)

RECURSIVE ReplayGrid(_, _, _)
\* The grid after the first k of the findings were applied to g, in order.
ReplayGrid(g, applied, k) ==
  IF k = 0 THEN g ELSE apply_finding(ReplayGrid(g, applied, k - 1), applied[k])

\* The hardest technique among the findings; NakedSingle when there is none.
MaxTechnique(applied) ==
  IF applied = << >> THEN "NakedSingle"
  ELSE LET T == {applied[i].technique : i \in DOMAIN applied}
       IN CHOOSE t \in T : \A u \in T : ~TechLess(t, u)

\* The first finding of the rating pipeline on g.
RateFinding(g) == TryInOrder(RatePipeline, from_grid(g), g)

\* The run recorded for the last call is the loop of solve_with_techniques
\* on a recalculated copy of the caller's grid: every finding applied was
\* the first finding on the grid before it.
RunIsTheLoop ==
  \A k \in 1..Len(run.applied) :
    LET gk == ReplayGrid(recalculate_candidates(grid), run.applied, k - 1)
    IN ~is_complete(gk) /\ RateFinding(gk) = Some(run.applied[k])

\* The grid the recorded findings lead to.
RunEnd == ReplayGrid(recalculate_candidates(grid), run.applied, Len(run.applied))

\* The loop found no finding on an incomplete grid.
RunStuck == ~is_complete(RunEnd) /\ RateFinding(RunEnd) = None

\* The technique the claims expect solve_with_techniques to return.
ExpectedTechnique ==
  IF RunStuck THEN "Backtracking" ELSE MaxTechnique(run.applied)

\* C8: rate_se returns the SE rating of the hardest technique among the
\* findings the loop applied (NakedSingle when it applied none) when the
\* loop found a finding in every iteration until the grid was complete, and
\* the rating of Backtracking exactly when an iteration found none on an
\* incomplete grid.
C8_RateSeHardest ==
  ret.op = "rate_se" =>
    LET stuck == RunStuck
    IN /\ RunIsTheLoop
       /\ is_complete(RunEnd) \/ stuck
       /\ ret.out = se_rating(IF stuck THEN "Backtracking"
                              ELSE MaxTechnique(run.applied))
       /\ (ret.out = se_rating("Backtracking")) <=> stuck

\* C8's case: a rating above the technique of the last finding applied, on
\* a run that filled the grid without the backtracker.
C8_Witness ==
  /\ ret.op = "rate_se"
  /\ ~run.fallback
  /\ Len(run.applied) >= 2
  /\ ret.out # se_rating(run.applied[Len(run.applied)].technique)

\* A rating of Backtracking after findings were applied.
FallbackAfterFindings ==
  /\ ret.op = "rate_se"
  /\ run.fallback
  /\ Len(run.applied) >= 1
  /\ ret.out = se_rating("Backtracking")

\* t lies between the techniques a and b of the Technique order.
Between(t, a, b) == TechRank(a) <= TechRank(t) /\ TechRank(t) <= TechRank(b)

\* The difficulty the mapping is claimed to give.
ClaimedDifficulty(t, empty_count) ==
  IF t = "NakedSingle"
  THEN (IF empty_count <= 35 THEN "Beginner" ELSE "Easy")
  ELSE IF t = "HiddenSingle" THEN "Medium"
  ELSE IF Between(t, "NakedPair", "HiddenTriple") THEN "Intermediate"
  ELSE IF t \in {"PointingPair", "BoxLineReduction"} THEN "Hard"
  ELSE IF Between(t, "XWing", "HiddenRectangle") THEN "Expert"
  ELSE IF Between(t, "XYWing", "BivalueUniversalGrave") THEN "Master"
  ELSE "Extreme"

\* C9: rate_difficulty maps the technique solve_with_techniques returns and
\* the number of empty cells of the caller's grid as claimed, technique by
\* technique, and the mapping does not decrease along the Technique order
\* (from each technique to the next, for every count of empty cells).
C9_DifficultyMapping ==
  /\ ret.op = "rate_difficulty" =>
       /\ RunIsTheLoop
       /\ ret.out = ClaimedDifficulty(ExpectedTechnique,
                                      Cardinality(empty_positions(grid)))
  /\ ret.op = "technique_to_difficulty" =>
       /\ ret.out = ClaimedDifficulty(ret.arg[1], ret.arg[2])
       /\ LET r == TechRank(ret.arg[1])
          IN r > 1 =>
               DiffRank(technique_to_difficulty(TechniqueOrder[r - 1], ret.arg[2]))
                 <= DiffRank(ret.out)

\* C9's case: the mapping applied past the threshold on the empty cells.
C9_Witness ==
  /\ ret.op = "technique_to_difficulty"
  /\ ret.arg[2] > BeginnerMaxEmpty
  /\ ret.out = "Easy"

\* A grid rated Intermediate by a run without the backtracker.
RatedByTechniques ==
  /\ ret.op = "rate_difficulty"
  /\ ~run.fallback
  /\ ret.out = "Intermediate"

----------------------------------------------------------------------------
(* Claims about the caller's grid                                          *)

\* The solver's entry points.
EntryPoints ==
  {"solve", "count_solutions", "has_unique_solution", "get_hint",
   "rate_difficulty", "rate_se"}

\* C10: every call of an entry point leaves the caller's grid as it was,
\* the solved digits and the candidate sets.
C10_CallerGridUnchanged ==
  [][ret'.op \in EntryPoints => grid' = grid]_vars

\* C10's case: a call whose working copy was solved by the backtracker
\* while the caller's grid, with a candidate struck, is still unsolved.
C10_Witness ==
  /\ ret.op \in {"rate_difficulty", "rate_se"}
  /\ run.fallback
  /\ IsSome(run.grid) /\ is_complete(run.grid.v)
  /\ ~is_complete(grid)
  /\ grid \in MarkedGrids
  /\ grid # recalculate_candidates(grid)

----------------------------------------------------------------------------
(* Claims about repeated runs                                              *)

\* The grids that hold the same digits as g in the same cells: g itself,
\* g with freshly calculated candidates, and g as from_string reads it.
SameContents(g) ==
  {g, recalculate_candidates(g), from_string([i \in 1..(N * N) |-> g.val[i - 1]])}

\* C11: a run of get_hint, solve or rate_se on a grid that holds the same
\* digits returns the same hint, the same grid, the same rating, and
\* solve_with_techniques applies the same findings in the same order:
\* nothing but the grid's digits enters the result.
C11_Deterministic ==
  \A g \in SameContents(grid) :
    /\ ret.op = "get_hint" => GetHint(g).out = ret.out
    /\ ret.op = "solve" => Solve(g).out = ret.out
    /\ ret.op = "rate_se" =>
         \E r \in {RateSe(g)} : r.out = ret.out /\ r.run.applied = run.applied

\* C11's case: a rating run that applied findings, on a grid whose
\* candidate marks differ from the freshly calculated ones.
C11_Witness ==
  /\ ret.op = "rate_se"
  /\ Len(run.applied) >= 2
  /\ grid \in MarkedGrids
  /\ Cardinality(SameContents(grid)) = 3

----------------------------------------------------------------------------
(* Claims about the pipelines                                              *)

\* The engines that propagate a hypothesis through an oracle.
ForcingChainEngines ==
  {"find_nishio_fc", "find_kraken_fish", "find_region_fc", "find_cell_fc",
   "find_dynamic_fc"}

NotForcingChain(e) == e \notin ForcingChainEngines

\* C12: in every iteration of solve_with_techniques the finding applied is
\* the one find_first_technique returns on the grid of that iteration, the
\* first iteration on the freshly recalculated grid included, and the loop
\* stops applying exactly where find_first_technique finds nothing; the
\* propagator's engines are the same ones in the same order with the
\* forcing chains left out.
C12_SamePipeline ==
  /\ PropPipeline = SelectSeq(HintPipeline, NotForcingChain)
  /\ ret.op \in {"rate_se", "rate_difficulty"} =>
       /\ \A k \in 1..Len(run.applied) :
            find_first_technique(ReplayGrid(recalculate_candidates(grid), run.applied, k - 1))
              = Some(run.applied[k])
       /\ ~is_complete(RunEnd) => find_first_technique(RunEnd) = None

\* C12's case: a rating run that applied a naked single right after a
\* hidden single.
C12_Witness ==
  /\ ret.op = "rate_se"
  /\ \E k \in 1..(Len(run.applied) - 1) :
       /\ run.applied[k].technique = "HiddenSingle"
       /\ run.applied[k + 1].technique = "NakedSingle"

----------------------------------------------------------------------------
(* Claims about the propagation oracles                                    *)

\* The grid propagate_full started on, and that grid after the first k
\* findings it applied.
PropStart == Hypothesis(grid, ret.arg[1], ret.arg[2])

PropGrid(k) == ReplayGrid(PropStart, run.applied, k)

\* The finding the propagator's engines select on a grid.
PropFinding(g) == TryInOrder(PropPipeline, from_grid(g), g)

C14_OraclesPure ==
  /\ [](ret.op \in Oracles =>
         /\ ret.out[1] \in GridValues
         /\ ret.out[2] \in BOOLEAN
         /\ ret.op = "propagate_full" => ret.out[2] = has_contradiction(ret.out[1]))
  /\ [][ret'.op \in Oracles => grid' = grid]_vars

\* C14's case: propagate_full applied findings and returned a contradictory
\* grid, which differs from the grid it received.
C14_Witness ==
  /\ ret.op = "propagate_full"
  /\ Len(run.applied) >= 1
  /\ ret.out[2]
  /\ ret.out[1] # grid

----------------------------------------------------------------------------
(* Claims about the grid solve_with_techniques ends with                   *)

\* The easy puzzle of the regression test, at the model's size.
S1 == from_string(<< 1,0,0,0,  0,0,3,0,  0,4,0,0,  0,0,0,2 >>)

\* C15: for a grid that has a solution, solve_with_techniques ends with its
\* working grid complete and equal to a solution of the grid, the solution
\* when there is one only, by techniques alone or through the backtracker;
\* for the easy puzzle it returns a technique below Backtracking.
C15_EndsComplete ==
  ret.op \in {"rate_se", "rate_difficulty"} =>
    /\ Completions(grid) # {} =>
         /\ IsSome(run.grid)
         /\ is_complete(run.grid.v)
         /\ \E S \in Completions(grid) : \A c \in Cells : run.grid.v.val[c] = S[c]
    /\ (grid = S1 /\ ret.op = "rate_se") =>
         /\ ~run.fallback
         /\ TechLess(ret.out.se_rating_of, "Backtracking")

\* C15's case: the easy puzzle, which has one solution, rated by a run that
\* applied a finding for every empty cell.
C15_Witness ==
  /\ ret.op = "rate_se"
  /\ grid = S1
  /\ Cardinality(Completions(grid)) = 1
  /\ Len(run.applied) = Cardinality(empty_positions(grid))
  /\ is_complete(run.grid.v)

\* A run that fell back to the backtracker on a grid with a solution.
FallbackOnSolvable ==
  /\ ret.op = "rate_se"
  /\ run.fallback
  /\ Completions(grid) # {}

----------------------------------------------------------------------------
(* Claims about conflicting givens                                         *)

\* C16: on a grid in which a house holds a digit twice among its givens,
\* solve returns None, count_solutions with limit 2 returns 0 and
\* has_unique_solution returns false.
C16_ConflictRejected ==
  ConflictingGivens(grid) =>
    /\ ret.op = "solve" => ret.out = None
    /\ (ret.op = "count_solutions" /\ ret.arg = 2) => ret.out = 0
    /\ ret.op = "has_unique_solution" => ~ret.out

\* C16 on the grids that have an unsolved cell and one pair of conflicting
\* givens only: the search finds no place for the digit elsewhere.
C16_OneConflictRejected ==
  (/\ empty_positions(grid) # {}
   /\ Cardinality({c \in Cells : grid.val[c] # 0 /\
                     \E p \in Peers[c] : grid.val[p] = grid.val[c]}) = 2)
  => C16_ConflictRejected

----------------------------------------------------------------------------
(* Claims about the rating of a grid with a given removed                  *)

\* The order of the ratings: a harder technique has the higher rating.
RatingLeq(a, b) == TechRank(a.se_rating_of) <= TechRank(b.se_rating_of)

\* The grid g with the given of cell c removed.
WithoutGiven(g, c) == set_cell_unchecked(g, c, 0)

\* C17: removing a given never lowers the rating: for every given cell c
\* of the grid rated, rate_se of the grid without c is at least the rating
\* returned.
C17_RatingMonotone ==
  ret.op = "rate_se" =>
    \A c \in Cells \ empty_positions(grid) :
      RatingLeq(ret.out, RateSe(WithoutGiven(grid, c)).out)

\* C17 on the grids that have a solution.
C17_RatingMonotoneSolvable == Completions(grid) # {} => C17_RatingMonotone

\* A grid without conflicting givens rated Backtracking that is rated
\* NakedSingle without one given.
RatingDropsToEasiest ==
  /\ ret.op = "rate_se"
  /\ ~ConflictingGivens(grid)
  /\ ret.out = se_rating("Backtracking")
  /\ \E c \in Cells \ empty_positions(grid) :
       RateSe(WithoutGiven(grid, c)).out = se_rating("NakedSingle")

----------------------------------------------------------------------------
(* Claims about atomic_write                                               *)

\* C18: at every point of a call of atomic_write, a crash included, the
\* target path holds what it held before the call (possibly no file) or
\* the complete new data; the temporary file lies in the target's
\* directory; a call that returns an error has left the target as it was,
\* and a call that returns Ok has put the data there.
C18_AtomicWrite ==
  aw.pc # "idle" =>
    /\ disk.target \in {aw.prev, Some(aw.data)}
    /\ IsSome(disk.tmp) =>
         disk.tmp.v.dir = Resolve(unwrap_or(parent(aw.path), << >>))
    /\ aw.result = Some("Err") => disk.target = aw.prev
    /\ aw.result = Some("Ok") => disk.target = Some(aw.data)
    /\ aw.pc = "returned" <=> IsSome(aw.result)

\* C18's case: the process crashed after part of the data was written,
\* while the target held other data from an earlier call.
C18_Witness ==
  /\ aw.pc = "crashed"
  /\ aw.done >= 1 /\ aw.done < Len(aw.data)
  /\ IsSome(aw.prev)
  /\ aw.prev # Some(aw.data)
  /\ disk.target = aw.prev

----------------------------------------------------------------------------
(* Claims about the token cache                                            *)

\* Thread t leaves the check of get_token in this step; thread t gets its
\* token in this step, from the cache or from the server.
Checks(t) == threads[t].pc = "get_token" /\ threads'[t].pc # "get_token"

Fetched(t) == threads[t].pc = "fetch" /\ threads'[t].pc # "fetch"

Returns(t) ==
  /\ threads[t].pc \in {"get_token", "fetch"}
  /\ threads'[t].pc = "post"
  /\ IsSome(threads'[t].token)

C20_RefreshAfter401 ==
  /\ [][\A t \in Threads :
          (threads[t].pc = "await" /\ threads'[t].pc # "await") =>
             /\ threads'[t].pc = "done"
             /\ IF threads'[t].status = 401
                THEN TOKEN_CACHE' = None
                ELSE TOKEN_CACHE' = TOKEN_CACHE]_vars
  /\ [][\A t \in Threads :
          threads[t].pc = "done" => threads'[t] = threads[t]]_vars
  /\ [](\A t \in Threads : threads[t].posts <= 1)
  /\ [][\A t \in Threads : Returns(t) =>
          threads'[t].token.v \notin net.rejected]_vars

\* C20's case: the first submission was answered 401 while its token was
\* still valid by the margin, and the second carries another token.
C20_Witness ==
  /\ threads[1].pc = "done"
  /\ threads[1].status = 401
  /\ threads[1].token = Some(1)
  /\ net.issued[1] > now + 60
  /\ threads[2].pc = "post"
  /\ threads[2].token = Some(2)

----------------------------------------------------------------------------
(* submit_result and its caller.                                           *)

\* A call of submit_result for an abandoned game: its slot is skipped.
Abandons(t) == threads[t].pc = "idle" /\ threads'[t].pc = "skipped"

\* A call of submit_result that spawns its thread.
Spawns(t) == threads[t].pc = "idle" /\ threads'[t].pc = "get_token"

\* A call of submit_result that ends in a panic of the caller.
Panics == ~app.panicked /\ app'.panicked

\* The abandoned half of C21: a call for a game that is neither won nor
\* lost spawns nothing, sends nothing, and leaves the token cache, its
\* lock, the data directory and the player id file as they were.
AbandonedUntouched ==
  [][\A t \in Threads : Abandons(t) =>
        /\ \A u \in Threads \ {t} : threads'[u] = threads[u]
        /\ threads'[t] = [threads[t] EXCEPT !.pc = "skipped"]
        /\ UNCHANGED <<net, TOKEN_CACHE, lock, disk, app>>]_vars

\* A skipped slot never posts.
SkippedStays ==
  [][\A t \in Threads : threads[t].pc = "skipped" => threads'[t] = threads[t]]_vars

\* C21: a call of submit_result for a game that is neither won nor lost
\* returns without a thread, a request, a change of the token cache or an
\* access to the player id file; a call for a Win or a Loss spawns a
\* thread, every thread posts at most once and a thread that has ended has
\* posted exactly once.
C21_AbandonedNeverSubmitted ==
  /\ AbandonedUntouched
  /\ SkippedStays
  /\ [][(app' # app \/ disk' # disk) => \E t \in Threads : Spawns(t)]_vars
  /\ [](\A t \in Threads :
          /\ threads[t].posts <= 1
          /\ threads[t].pc \in {"await", "done"} => threads[t].posts = 1
          /\ threads[t].pc \in {"idle", "skipped", "get_token", "fetch", "post"}
               => threads[t].posts = 0)

\* C21 without the calls that panic: every call that returns does what the
\* claim says.
C21_ReturnedCalls ==
  /\ AbandonedUntouched
  /\ SkippedStays
  /\ [][(app' # app \/ disk' # disk) =>
          Panics \/ \E t \in Threads : Spawns(t)]_vars
  /\ [](\A t \in Threads :
          /\ threads[t].posts <= 1
          /\ threads[t].pc \in {"await", "done"} => threads[t].posts = 1
          /\ threads[t].pc \in {"idle", "skipped", "get_token", "fetch", "post"}
               => threads[t].posts = 0)

\* The network half of C22: a call of submit_result sends nothing itself;
\* every request to the token or the results endpoint is sent by a step of
\* a spawned thread, whose failures end in the thread.
NetworkOnThreads ==
  /\ [][\A t \in Threads : (Abandons(t) \/ Spawns(t)) => net' = net]_vars
  /\ [][Panics => net' = net]_vars
  /\ [][net' # net =>
          \E t \in Threads :
            /\ threads[t].pc \in {"get_token", "fetch", "post", "await"}
            /\ threads'[t] # threads[t]]_vars

\* C22: whatever fails during a submission (the data directory, the
\* player id file, the token fetch, the POST), submit_result returns to
\* its caller without a panic, and every request is sent by a spawned
\* thread.
C22_FailuresIgnored ==
  /\ [](~app.panicked)
  /\ NetworkOnThreads

\* The failures that are ignored: the player id could not be written
\* (atomic_write was called and there is still no file), the token fetch
\* failed and the POST was answered with an error, and the call has
\* returned and its thread has ended.
IgnoredFailuresReached ==
  /\ ~app.panicked
  /\ app.writes > 0
  /\ disk.target = None
  /\ threads[1].pc = "done"
  /\ threads[1].token = None
  /\ threads[1].status = 500

----------------------------------------------------------------------------
(* Termination of solve_with_techniques                                    *)

\* The number of unsolved cells of a grid.
Unsolved(g) == Cardinality(empty_positions(g))

RECURSIVE CandidatesUpTo(_, _)
\* The number of candidates of the cells 0..c of a grid.
CandidatesUpTo(g, c) ==
  IF c < 0 THEN 0 ELSE Cardinality(g.cand[c]) + CandidatesUpTo(g, c - 1)

\* The total number of candidates of a grid.
TotalCandidates(g) == CandidatesUpTo(g, N * N - 1)

\* The pair (unsolved cells, candidates) of a is below that of b in the
\* lexicographic order.
MeasureLess(a, b) ==
  \/ Unsolved(a) < Unsolved(b)
  \/ Unsolved(a) = Unsolved(b) /\ TotalCandidates(a) < TotalCandidates(b)

\* A finding is a placement into an unsolved cell of g, or an elimination
\* that removes at least one candidate g still has.
Effective(g, f) ==
  IF f.kind = "Placement" THEN g.val[f.cell] = 0
  ELSE f.values \cap g.cand[f.cell] # {}

\* The grid of the loop before its k-th finding was applied.
LoopGrid(k) == ReplayGrid(recalculate_candidates(grid), run.applied, k - 1)

\* C23: every iteration of the loop of solve_with_techniques applied the
\* finding of its engines on an incomplete grid, that finding was a
\* placement into an unsolved cell or an elimination of a candidate still
\* present, and applying it lowered the pair (unsolved cells, candidates);
\* the loop ended on a complete grid or, with no finding left, through the
\* backtracker.
C23_TechniquesTerminate ==
  ret.op \in {"rate_se", "rate_difficulty"} =>
    /\ \A k \in 1..Len(run.applied) :
         /\ ~is_complete(LoopGrid(k))
         /\ RateFinding(LoopGrid(k)) = Some(run.applied[k])
         /\ Effective(LoopGrid(k), run.applied[k])
         /\ MeasureLess(LoopGrid(k + 1), LoopGrid(k))
    /\ IF is_complete(LoopGrid(Len(run.applied) + 1))
       THEN ~run.fallback
       ELSE run.fallback /\ RateFinding(LoopGrid(Len(run.applied) + 1)) = None

\* C23's case: the loop applied an elimination, which left the number of
\* unsolved cells as it was, and placements after it, and ended on a
\* complete grid.
C23_Witness ==
  /\ ret.op = "rate_se"
  /\ ~run.fallback
  /\ \E j \in 1..Len(run.applied) :
       /\ run.applied[j].kind = "Elimination"
       /\ Unsolved(LoopGrid(j + 1)) = Unsolved(LoopGrid(j))
       /\ \E k \in (j + 1)..Len(run.applied) : run.applied[k].kind = "Placement"

----------------------------------------------------------------------------
(* Progress of the hint loop                                               *)

\* The loop has just applied a hint that eliminates candidates.
EliminationApplied ==
  /\ ret.op = "apply"
  /\ ret.out.v.hint_type = "EliminateCandidates"

\* The fabric the next call of get_hint searches.
NextHintFabric == from_grid(recalculate_candidates(deep_clone(grid)))

\* The candidates an applied elimination hint removed are absent from the
\* fabric the next call of get_hint searches.
RemovedStayAbsent ==
  EliminationApplied =>
    ret.out.v.values \cap NextHintFabric.cand[pos_to_idx(ret.out.v.pos)] = {}

\* The hint after an applied elimination hint is another hint.
NoHintTwice ==
  [][(EliminationApplied /\ ret'.op = "get_hint") => ret'.out # ret.out]_vars

\* On a grid with one solution, applying the hint lowers the pair
\* (unsolved cells, candidates), so that the loop ends on a complete grid.
UniqueProgress ==
  [][(ret'.op = "apply" /\ Cardinality(Completions(grid)) = 1) =>
        MeasureLess(grid', grid)]_vars

\* C25: the candidates removed by an applied elimination hint are absent
\* from the fabric the next call of get_hint searches, get_hint does not
\* return the elimination hint just applied once more, and on a puzzle
\* with one solution every applied hint brings the grid closer to complete.
C25_HintLoopProgress ==
  /\ [](RemovedStayAbsent)
  /\ NoHintTwice
  /\ UniqueProgress

\* The hint loop is stuck: the elimination hint that was applied is
\* returned again for the grid it was applied to.
SameHintAgain ==
  /\ ret.op = "get_hint"
  /\ steps >= 2
  /\ IsSome(ret.out)
  /\ ret.out.v.hint_type = "EliminateCandidates"
  /\ ret.out.v.values \cap grid.cand[pos_to_idx(ret.out.v.pos)] = {}

----------------------------------------------------------------------------
(* Freshness of the fabric                                                 *)

\* C24: in the loop of solve_with_techniques and in the loop of
\* propagate_full, the finding of every iteration is the one the engines
\* give on the fabric built from the working grid as it is in that
\* iteration, after every finding applied before, together with that same
\* grid for the forcing chains; and the iteration that ends a loop without
\* a finding has searched the fabric of the last grid.
C24_FabricFresh ==
  /\ ret.op = "rate_se" =>
       /\ \A k \in 1..Len(run.applied) :
            TryInOrder(RatePipeline, from_grid(LoopGrid(k)), LoopGrid(k))
              = Some(run.applied[k])
       /\ run.fallback =>
            TryInOrder(RatePipeline, from_grid(LoopGrid(Len(run.applied) + 1)),
                       LoopGrid(Len(run.applied) + 1)) = None
  /\ ret.op = "propagate_full" =>
       /\ \A k \in 1..Len(run.applied) :
            TryInOrder(PropPipeline, from_grid(PropGrid(k - 1)), PropGrid(k - 1))
              = Some(run.applied[k])
       /\ (/\ Len(run.applied) < PropagateCap
           /\ ~has_contradiction(ret.out[1])
           /\ ~is_complete(ret.out[1])) =>
            TryInOrder(PropPipeline, from_grid(ret.out[1]), ret.out[1]) = None

\* C24's case: the loop of solve_with_techniques applied an elimination
\* and went on, and the fabric of the iteration before would have given
\* another finding than the one the loop applied next.
C24_Witness ==
  /\ ret.op = "rate_se"
  /\ \E k \in 2..Len(run.applied) :
       /\ run.applied[k - 1].kind = "Elimination"
       /\ TryInOrder(RatePipeline, from_grid(LoopGrid(k - 1)), LoopGrid(k))
            # Some(run.applied[k])

----------------------------------------------------------------------------
(* Concurrent submissions                                                  *)

\* The lock half of C26: a thread that fetches holds the lock of the cache
\* from its check to its store, so at most one fetch is in progress; the
\* lock is held by no other thread, and the cache is stored to only by the
\* thread that holds the lock.
FetchesExclusive ==
  /\ [](\A t \in Threads : threads[t].pc = "fetch" <=> lock = t)
  /\ [](Cardinality({t \in Threads : threads[t].pc = "fetch"}) <= 1)
  /\ [][(TOKEN_CACHE' # TOKEN_CACHE /\ TOKEN_CACHE' # None) =>
          /\ lock # 0
          /\ Fetched(lock)
          /\ TOKEN_CACHE'.v.token = threads'[lock].token.v]_vars

\* The answer 401 to thread t arrives.
Rejected(t) ==
  /\ threads[t].pc = "await"
  /\ threads'[t].pc = "done"
  /\ threads'[t].status = 401

\* C26: at most one token fetch is in progress at a time, under the lock
\* of the cache; and the answer 401 to a request that carried token T
\* clears the cache when it holds T and leaves it alone when it holds
\* another token.
C26_RaceFree ==
  /\ FetchesExclusive
  /\ [][\A t \in Threads : Rejected(t) =>
          IF IsSome(TOKEN_CACHE) /\ threads[t].token = Some(TOKEN_CACHE.v.token)
          THEN TOKEN_CACHE' = None
          ELSE TOKEN_CACHE' = TOKEN_CACHE]_vars

\* A newer token is lost: the first thread was answered 401 for token 1
\* after the second thread had stored token 2, and the cache is empty
\* while token 2 has not been rejected.
NewerTokenDiscarded ==
  /\ threads[1].pc = "done"
  /\ threads[1].status = 401
  /\ threads[1].token = Some(1)
  /\ threads[2].token = Some(2)
  /\ 2 \notin net.rejected
  /\ TOKEN_CACHE = None

====
